---------------------------- MODULE Spec2Model ----------------------------
(***************************************************************************)
(* A model of the audit subsystem of matt-stack: the report writer         *)
(* (auditors/report.py), the code-quality auditor (auditors/quality.py),   *)
(* the endpoint auditor (auditors/endpoints.py) and the orchestrator       *)
(* (commands/audit.py) with the auditors it drives.                        *)
(*                                                                         *)
(* Text is modelled as a sequence of tokens.  A token is a tuple of        *)
(* strings and numbers; the two audit markers, a newline and a piece of    *)
(* user text are tokens of their own, so that substring search for a       *)
(* marker is a search for a token.                                         *)
(***************************************************************************)
EXTENDS Integers, Sequences, FiniteSets, TLC

VARIABLES
    \* ---- report.py: write_todo on tasks/todo.md
    todoExists,  \* todo_path.exists()
    todo,        \* the text of the task file (a sequence of tokens)
    report,      \* the findings of the report handed to the last call
    section,     \* audit_section built by the last call (<<>> when none)
    ret,         \* what the last call returned: "None" or "todo_path"
    ncalls,      \* number of write_todo calls so far
    allActionable, \* every call so far carried an ERROR or WARNING finding
    \* ---- quality.py: one CodeQualityAuditor
    fs,          \* the source files of the project: path -> its lines
    fs0,         \* the source files as they were before the run
    fix,         \* config.fix
    qpc,         \* "new" (constructed), "scan" (in run's loop), "done"
    queue,       \* the files of _collect_files() the loop has not reached
    scanned,     \* the files whose text _scan_file has read
    fix_count,   \* self._fix_count
    qfindings,   \* self.findings
    written,     \* the files written, in the order of the writes
    \* ---- endpoints.py: one EndpointAuditor
    route_files, \* find_route_files(project) is not empty
    routes,      \* what parse_routes_file yields for the route files, in order
    live,        \* config.live
    epc,         \* "new", "probe" (in _live_probe's loop), "done", "raised"
    pidx,        \* the index of the route _live_probe's loop reaches next
    efindings,   \* self.findings
    requests,    \* the requests _live_probe made, in order, with what came of each
    \* ---- commands/audit.py: one call of run_audit
    path_is_dir, \* project_path.is_dir()
    audit_types, \* the audit_types argument (<<>> when None or empty)
    min_severity, \* the min_severity argument ("" when None or empty)
    no_todo,     \* the no_todo argument
    json_output, \* the json_output argument
    html_output, \* the html_output argument
    project,     \* what the parsers yield for the project's files
    apc,         \* the position of run_audit
    aidx,        \* the position of the loop over AUDITOR_CLASSES
    plugin_classes, \* the plugin classes the plugin loop has not reached
    rfindings,   \* report.findings
    unfiltered,  \* report.findings as they were before the severity filter
    auditors_run, \* report.auditors_run
    results,     \* what each run() returned, in the order of the runs
    raised,      \* the auditor or plugin whose run() raised (<<>> when none)
    exit_code,   \* the exit code of typer.Exit (-1 when none was raised)
    printed,     \* what print_json or print_report was given
    html_written, \* audit-report.html was written
    \* ---- one call of a function or method examined on its own
    fn_args,     \* the arguments of the call
    fn_result,   \* what the call has produced so far
    fn_pc        \* the position of the call ("idle" when there is none)

todoVars == <<todoExists, todo, report, section, ret, ncalls, allActionable>>
qualityVars == <<fs, fs0, fix, qpc, queue, scanned, fix_count, qfindings, written>>
endpointVars == <<route_files, routes, live, epc, pidx, efindings, requests>>
auditVars == <<path_is_dir, audit_types, min_severity, no_todo, json_output,
               html_output, project, apc, aidx, plugin_classes, rfindings,
               unfiltered, auditors_run, results, raised, exit_code, printed,
               html_written>>
callVars == <<fn_args, fn_result, fn_pc>>
vars == <<todoVars, qualityVars, endpointVars, auditVars, callVars>>

----------------------------------------------------------------------------
(* Bounds of the model *)

MaxFileLen == 2
MaxFindings == 2
MaxCalls == 2
MaxLines == 2
MaxRoutes == 3

----------------------------------------------------------------------------
(* base.py: Severity, AuditFinding *)

Severity == {"error", "warning", "info"}

\* str.upper() on the three severity values
Upper(s) ==
    CASE s = "error" -> "ERROR"
      [] s = "warning" -> "WARNING"
      [] s = "info" -> "INFO"

\* AuditFinding(category, severity, file, line, message, suggestion)
AuditFinding(c, s, f, l, m, sg) ==
    [category |-> c, severity |-> s, file |-> f, line |-> l,
     message |-> m, suggestion |-> sg]

\* sequences over S of length at most n
SeqsUpTo(S, n) == UNION {[1..k -> S] : k \in 0..n}

----------------------------------------------------------------------------
(* report.py *)

AUDIT_START == <<"<!-- audit:start -->">>
AUDIT_END == <<"<!-- audit:end -->">>
NL == <<"\n">>

\* the values of AuditType in the order sorted() gives their strings
CategoryOrder ==
    <<"dependencies", "endpoints", "quality", "tests", "types", "vulnerabilities">>

\* "\n".join(lines), each line a sequence of tokens
RECURSIVE Join(_)
Join(lines) ==
    IF lines = <<>> THEN <<>>
    ELSE IF Len(lines) = 1 THEN Head(lines)
    ELSE Head(lines) \o <<NL>> \o Join(Tail(lines))

\* one finding's lines of the section: the checkbox line and the suggestion
ItemLines(item) ==
    LET icon == IF item.severity = "error" THEN "x" ELSE " "
        entry == IF item.line # 0
                 THEN <<"- [", icon, Upper(item.severity), item.file, item.line,
                        item.message>>
                 ELSE <<"- [", icon, Upper(item.severity), item.file,
                        item.message>>
    IN <<  <<entry>>  >> \o
       (IF item.suggestion # <<>> THEN << <<  <<"  - ", item.suggestion>>  >> >>
        ELSE <<>>)

RECURSIVE ItemsLines(_)
ItemsLines(items) ==
    IF items = <<>> THEN <<>>
    ELSE ItemLines(Head(items)) \o ItemsLines(Tail(items))

\* the lines of the categories from position i of the sorted order on
RECURSIVE CategoryLines(_, _)
CategoryLines(findings, i) ==
    IF i > Len(CategoryOrder) THEN <<>>
    ELSE LET cat == CategoryOrder[i]
             items == SelectSeq(findings, LAMBDA f : f.category = cat)
         IN (IF items = <<>> THEN <<>>
             ELSE << <<  <<"### ", cat>>  >> >> \o ItemsLines(items) \o << <<>> >>)
            \o CategoryLines(findings, i + 1)

_build_audit_section(findings) ==
    Join(<< <<AUDIT_START>>, << <<"## Audit Findings">> >>, <<>> >>
         \o CategoryLines(findings, 1)
         \o << <<AUDIT_END>> >>)

\* x in content
Contains(content, x) == \E i \in 1..Len(content) : content[i] = x

\* content.index(x), 1-based
Index(content, x) ==
    CHOOSE i \in 1..Len(content) :
        /\ content[i] = x
        /\ \A j \in 1..(i - 1) : content[j] # x

\* content.rstrip(): the newline is the whitespace of the model
RECURSIVE Rstrip(_)
Rstrip(content) ==
    IF content # <<>> /\ content[Len(content)] = NL
    THEN Rstrip(SubSeq(content, 1, Len(content) - 1))
    ELSE content

_replace_audit_section(content, new_section) ==
    IF Contains(content, AUDIT_START) /\ Contains(content, AUDIT_END)
    THEN LET start == Index(content, AUDIT_START)
             end == Index(content, AUDIT_END)
         IN SubSeq(content, 1, start - 1) \o new_section
            \o SubSeq(content, end + 1, Len(content))
    ELSE Rstrip(content) \o <<NL, NL>> \o new_section \o <<NL>>

\* the filter left out: every finding counts as actionable
ActionableAll(findings) == findings

Actionable(findings) ==
    SelectSeq(findings, LAMBDA f : f.severity \in {"error", "warning"})

\* write_todo without the early return for a report with no actionable finding
write_todo_NoEarlyReturn(findings) ==
    LET actionable == Actionable(findings)
        audit_section == _build_audit_section(actionable)
    IN /\ ncalls < MaxCalls
       /\ ncalls' = ncalls + 1
       /\ report' = findings
       /\ allActionable' = (allActionable /\ actionable # <<>>)
       /\ ret' = IF actionable = <<>> THEN "None" ELSE "todo_path"
       /\ section' = audit_section
       /\ todoExists' = TRUE
       /\ todo' = IF todoExists
                  THEN _replace_audit_section(todo, audit_section)
                  ELSE << <<"# Project TODO">>, NL, NL >>
                       \o audit_section \o <<NL>>

\* write_todo(report, project_path)
write_todo(findings) ==
    LET actionable == Actionable(findings)
        audit_section == _build_audit_section(actionable)
    IN /\ ncalls < MaxCalls
       /\ ncalls' = ncalls + 1
       /\ report' = findings
       /\ allActionable' = (allActionable /\ actionable # <<>>)
       /\ IF actionable = <<>>
          THEN /\ ret' = "None"
               /\ section' = <<>>
               /\ UNCHANGED <<todoExists, todo>>
          ELSE /\ ret' = "todo_path"
               /\ section' = audit_section
               /\ todoExists' = TRUE
               /\ todo' = IF todoExists
                          THEN _replace_audit_section(todo, audit_section)
                          ELSE << <<"# Project TODO">>, NL, NL >>
                               \o audit_section \o <<NL>>

----------------------------------------------------------------------------
(* quality.py *)

\* the paths the model knows, with what pathlib gives for each
SourcePaths ==
    {"api.py", "app.tsx", "matt-stack-plugins/check.py", "node_modules/lib.js",
     "schemas.py", "schemas.ts", "test_views.py", "types.ts", "views.py"}

\* path.suffix
Suffix(path) ==
    CASE path \in {"api.py", "matt-stack-plugins/check.py", "schemas.py",
                   "test_views.py", "views.py"} -> ".py"
      [] path = "app.tsx" -> ".tsx"
      [] path = "node_modules/lib.js" -> ".js"
      [] path \in {"schemas.ts", "types.ts"} -> ".ts"

\* "test" in path.stem.lower() or "spec" in path.stem.lower()
StemNamesTest(path) == path = "test_views.py"

\* any(p in f.parts for p in SKIP_DIRS)
InSkipDir(path) == path = "node_modules/lib.js"

\* the position of a path in sorted(SourcePaths)
PathRank(path) ==
    CASE path = "api.py" -> 1
      [] path = "app.tsx" -> 2
      [] path = "matt-stack-plugins/check.py" -> 3
      [] path = "node_modules/lib.js" -> 4
      [] path = "schemas.py" -> 5
      [] path = "schemas.ts" -> 6
      [] path = "test_views.py" -> 7
      [] path = "types.ts" -> 8
      [] path = "views.py" -> 9

PY_EXTS == {".py"}
JS_EXTS == {".ts", ".tsx", ".js", ".jsx"}
ALL_EXTS == PY_EXTS \cup JS_EXTS

\* The lines of the model and the patterns each matches (re.search / re.match
\* of the line against the pattern).
TodoTag(line) ==
    CASE line = "# TODO: clean up" -> "TODO"
      [] line = "# HACK: later" -> "HACK"
      [] OTHER -> ""
MatchesMock(line) == line = "mock_user = 1"
MatchesCredential(line) == line = "password123"
MatchesPyDebug(line) == line \in {"print('x')", "    breakpoint()"}
MatchesJsDebug(line) == line \in {"console.log('x')", "debugger"}
MatchesStub(line) == line = "    pass"

\* sorted(files)
RECURSIVE Sorted(_)
Sorted(paths) ==
    IF paths = {} THEN <<>>
    ELSE LET first == CHOOSE p \in paths : \A q \in paths : PathRank(p) <= PathRank(q)
         IN <<first>> \o Sorted(paths \ {first})

\* CodeQualityAuditor._collect_files over the files of the project
_collect_files(files) ==
    Sorted({f \in DOMAIN files : Suffix(f) \in ALL_EXTS /\ ~InSkipDir(f)})

QFinding(sev, path, i, msg, sg) == AuditFinding("quality", sev, path, i, msg, sg)

\* CodeQualityAuditor._handle_debug: st is the state of the scan, a record
\* of the lines, the findings added, the fixes counted and file_modified
_handle_debug(st, path, line_num, line, is_python, fixing) ==
    LET kind == IF is_python THEN "print()" ELSE "console.log()"
        found == Append(st.findings,
                        QFinding("warning", path, line_num,
                                 <<"Debug statement: ", line>>,
                                 <<"Remove before shipping", kind>>))
    IN IF fixing
       THEN [st EXCEPT !.findings = found,
                       !.lines = [st.lines EXCEPT ![line_num] = ""],
                       !.fixes = st.fixes + 1]
       ELSE [st EXCEPT !.findings = found]

\* the body of _scan_file's loop for line i
ScanLine(st, path, i, fixing) ==
    LET line == st.lines[i]
        is_python == Suffix(path) \in PY_EXTS
        is_js == Suffix(path) \in JS_EXTS
        is_test == StemNamesTest(path)
        tag == TodoTag(line)
        s1 == IF tag # ""
              THEN [st EXCEPT !.findings = Append(@,
                       QFinding(IF tag \in {"TODO", "FIXME"} THEN "warning" ELSE "info",
                                path, i, <<"comment: ", tag, line>>,
                                <<"Resolve or track this", tag>>))]
              ELSE st
        s2 == IF ~is_test /\ MatchesMock(line)
              THEN [s1 EXCEPT !.findings = Append(@,
                       QFinding("warning", path, i, <<"Possible mock/placeholder: ", line>>,
                                <<"Replace with real implementation or configuration">>))]
              ELSE s1
        s3 == IF MatchesCredential(line)
              THEN [s2 EXCEPT !.findings = Append(@,
                       QFinding("error", path, i, <<"Hardcoded credential: ", line>>,
                                <<"Move to environment variable">>))]
              ELSE s2
    IN IF ~is_test
       THEN IF is_python
            THEN IF MatchesPyDebug(line)
                 THEN [_handle_debug(s3, path, i, line, TRUE, fixing)
                          EXCEPT !.modified = TRUE]
                 ELSE s3
            ELSE IF is_js /\ MatchesJsDebug(line)
                 THEN [_handle_debug(s3, path, i, line, FALSE, fixing)
                          EXCEPT !.modified = TRUE]
                 ELSE s3
       ELSE s3

\* for i, line in enumerate(lines, 1): the lines from i on
RECURSIVE ScanLines(_, _, _, _)
ScanLines(st, path, i, fixing) ==
    IF i > Len(st.lines) THEN st
    ELSE ScanLines(ScanLine(st, path, i, fixing), path, i + 1, fixing)

\* the stub findings of the file's text as it was read
RECURSIVE StubFindings(_, _, _)
StubFindings(text, path, i) ==
    IF i > Len(text) THEN <<>>
    ELSE (IF MatchesStub(text[i])
          THEN << QFinding("warning", path, i, <<"Stub implementation: ", "pass">>,
                           <<"Implement the function body">>) >>
          ELSE <<>>) \o StubFindings(text, path, i + 1)

\* path.read_text(encoding="utf-8", errors="replace") on one line of the
\* file's bytes: a byte that is not UTF-8 becomes U+FFFD, and the "\r" of a
\* "\r\n" line end is dropped by the newline translation of text mode
DecodeLine(line) ==
    CASE line = "# caf\\xe9" -> "# caf\\ufffd"
      [] line = "y = 2\\r" -> "y = 2"
      [] OTHER -> line

\* text = path.read_text(encoding="utf-8", errors="replace"), as lines
DecodeReplace(bytes) == [i \in 1..Len(bytes) |-> DecodeLine(bytes[i])]

\* _scan_file writing the file back whenever the fix flag is set
_scan_file_AlwaysWrites(path, text, fixing, write_ok) ==
    LET st == ScanLines([lines |-> text, findings |-> <<>>, fixes |-> 0,
                         modified |-> FALSE], path, 1, fixing)
        wrote == fixing /\ write_ok
        stubs == IF Suffix(path) \in PY_EXTS /\ ~StemNamesTest(path)
                 THEN StubFindings(text, path, 1) ELSE <<>>
    IN [lines |-> IF wrote THEN st.lines ELSE text,
        findings |-> st.findings \o stubs,
        fixes |-> st.fixes,
        wrote |-> wrote]

\* CodeQualityAuditor._scan_file(path), the read succeeding; write_ok is
\* whether path.write_text does not raise OSError.  The result is the scan
\* state with the file's new lines and whether the file was written.
_scan_file(path, text, fixing, write_ok) ==
    LET st == ScanLines([lines |-> text, findings |-> <<>>, fixes |-> 0,
                         modified |-> FALSE], path, 1, fixing)
        wrote == fixing /\ st.modified /\ write_ok
        stubs == IF Suffix(path) \in PY_EXTS /\ ~StemNamesTest(path)
                 THEN StubFindings(text, path, 1) ELSE <<>>
    IN [lines |-> IF wrote THEN st.lines ELSE text,
        findings |-> st.findings \o stubs,
        fixes |-> st.fixes,
        wrote |-> wrote]

\* CodeQualityAuditor.run: the call of _collect_files
CollectFiles ==
    /\ qpc = "new"
    /\ qpc' = "scan"
    /\ queue' = _collect_files(fs)
    /\ UNCHANGED <<fs, fs0, fix, scanned, fix_count, qfindings, written>>

\* CodeQualityAuditor.run: one turn of the loop, _scan_file(path)
ScanFile ==
    /\ qpc = "scan"
    /\ queue # <<>>
    /\ LET path == Head(queue)
       IN \E read_ok, write_ok \in BOOLEAN :
            /\ queue' = Tail(queue)
            /\ IF ~read_ok
               THEN UNCHANGED <<fs, scanned, fix_count, qfindings, written>>
               ELSE LET r == _scan_file(path, DecodeReplace(fs[path]), fix, write_ok)
                    IN /\ fs' = IF r.wrote THEN [fs EXCEPT ![path] = r.lines] ELSE fs
                       /\ scanned' = scanned \cup {path}
                       /\ fix_count' = fix_count + r.fixes
                       /\ qfindings' = qfindings \o r.findings
                       /\ written' = IF r.wrote THEN Append(written, path)
                                     ELSE written
    /\ UNCHANGED <<fs0, fix, qpc>>

\* CodeQualityAuditor.run: return self.findings
QualityReturn ==
    /\ qpc = "scan"
    /\ queue = <<>>
    /\ qpc' = "done"
    /\ UNCHANGED <<fs, fs0, fix, queue, scanned, fix_count, qfindings, written>>

\* the quality auditor does not exist
QualityIdle ==
    /\ fs = <<>> /\ fs0 = <<>> /\ fix = FALSE /\ qpc = "idle" /\ queue = <<>>
    /\ scanned = {} /\ fix_count = 0 /\ qfindings = <<>> /\ written = <<>>

TodoIdle ==
    /\ todoExists = FALSE /\ todo = <<>> /\ report = <<>> /\ section = <<>>
    /\ ret = "None" /\ ncalls = 0 /\ allActionable = TRUE

----------------------------------------------------------------------------
(* endpoints.py *)

\* django_routes.py: Route(method, path, function_name, file, line, has_auth,
\* is_stub)
Route(m, p, fn, f, l, a, s) ==
    [method |-> m, path |-> p, function_name |-> fn, file |-> f, line |-> l,
     has_auth |-> a, is_stub |-> s]

\* the route paths of the model
RoutePaths == {"/users", "/items/{id}", "/items/<id>", "users/", "/"}

\* path.startswith("/")
StartsWithSlash(path) == path \in {"/users", "/items/{id}", "/items/<id>", "/"}

\* path.endswith("/")
EndsWithSlash(path) == path \in {"users/", "/"}

\* the test for a parameterized route looking for "{" only
ParameterizedBraceOnly(path) == path = "/items/{id}"

\* "{" in url or "<" in url, for url = base_url + path with the default
\* base_url "http://localhost:8000"
Parameterized(path) == path \in {"/items/{id}", "/items/<id>"}

EFinding(sev, file, line, msg, sg) ==
    AuditFinding("endpoints", sev, file, line, msg, sg)

\* the indices of rs whose route has the key <<method, path>>
KeyIndices(rs, key) ==
    {i \in 1..Len(rs) : <<rs[i].method, rs[i].path>> = key}

\* route_map[key]: the routes with the key, in the order of rs
RoutesOfKey(rs, key) ==
    SelectSeq(rs, LAMBDA r : <<r.method, r.path>> = key)

\* the message's list of one location only
LocationsFirst(dupes) == << <<dupes[1].file, dupes[1].line>> >>

\* ", ".join(f"{file}:{line}" for r in dupes)
Locations(dupes) == [i \in 1..Len(dupes) |-> <<dupes[i].file, dupes[i].line>>]

\* _check_duplicates: the loop over counter.items(), which yields the keys
\* in the order of their first occurrence in routes
_check_duplicates(rs) ==
    LET RECURSIVE Loop(_)
        Loop(j) ==
            IF j > Len(rs) THEN <<>>
            ELSE LET key == <<rs[j].method, rs[j].path>>
                     first == \A k \in 1..(j - 1) :
                                  <<rs[k].method, rs[k].path>> # key
                     count == Cardinality(KeyIndices(rs, key))
                     dupes == RoutesOfKey(rs, key)
                 IN (IF first /\ count > 1
                     THEN << EFinding("error", dupes[1].file, dupes[1].line,
                                      <<"Duplicate route: ", key[1], key[2],
                                        count, Locations(dupes)>>,
                                      <<"Remove duplicate or use unique paths">>) >>
                     ELSE <<>>) \o Loop(j + 1)
    IN Loop(1)

\* _check_stubs
_check_stubs(rs) ==
    LET RECURSIVE Loop(_)
        Loop(j) ==
            IF j > Len(rs) THEN <<>>
            ELSE (IF rs[j].is_stub
                  THEN << EFinding("warning", rs[j].file, rs[j].line,
                                   <<"Stub endpoint: ", rs[j].method, rs[j].path,
                                     rs[j].function_name>>,
                                   <<"Implement the endpoint handler">>) >>
                  ELSE <<>>) \o Loop(j + 1)
    IN Loop(1)

\* _check_auth
_check_auth(rs) ==
    LET write_methods == {"POST", "PUT", "DELETE", "PATCH"}
        RECURSIVE Loop(_)
        Loop(j) ==
            IF j > Len(rs) THEN <<>>
            ELSE (IF rs[j].method \in write_methods /\ ~rs[j].has_auth
                  THEN << EFinding("warning", rs[j].file, rs[j].line,
                                   <<"No auth on write endpoint: ",
                                     rs[j].method, rs[j].path>>,
                                   <<"Add auth=... parameter to protect write operations">>) >>
                  ELSE <<>>) \o Loop(j + 1)
    IN Loop(1)

\* _check_naming
_check_naming(rs) ==
    LET RECURSIVE Loop(_)
        Loop(j) ==
            IF j > Len(rs) THEN <<>>
            ELSE (IF ~StartsWithSlash(rs[j].path)
                  THEN << EFinding("info", rs[j].file, rs[j].line,
                                   <<"Route path missing leading slash: ",
                                     rs[j].path>>,
                                   <<"Use '/", rs[j].path, "' for consistency">>) >>
                  ELSE <<>>)
                 \o (IF rs[j].path # "/" /\ EndsWithSlash(rs[j].path)
                     THEN << EFinding("info", rs[j].file, rs[j].line,
                                      <<"Trailing slash on route: ", rs[j].path>>,
                                      <<"Consider removing trailing slash for consistency">>) >>
                     ELSE <<>>)
                 \o Loop(j + 1)
    IN Loop(1)

\* what urlopen does with one GET request: a response below 500, a response
\* of 500 or more, HTTPError 404, HTTPError 403, HTTPError 503,
\* URLError, TimeoutError, OSError, or an exception that is none of these
\* (http.client.HTTPException, ValueError)
ProbeOutcomes == {"200", "500", "HTTPError 404", "HTTPError 403",
                  "HTTPError 503", "URLError", "TimeoutError", "OSError",
                  "HTTPException"}

\* _live_probe without the break after a connection failure
ProbeRouteResultNoBreak(r, outcome) ==
    IF r.method # "GET" \/ Parameterized(r.path)
    THEN [findings |-> <<>>, requested |-> FALSE, stop |-> FALSE,
          raises |-> FALSE]
    ELSE CASE outcome \in {"500", "HTTPError 503"} ->
                [findings |-> << EFinding("error", r.file, r.line,
                                   <<"Live probe returned ", r.method, r.path,
                                     IF outcome = "500" THEN 500 ELSE 503>>,
                                   <<"Check server logs for the error">>) >>,
                 requested |-> TRUE, stop |-> FALSE, raises |-> FALSE]
           [] outcome = "HTTPError 404" ->
                [findings |-> << EFinding("warning", r.file, r.line,
                                   <<"Live probe returned ", r.method, r.path, 404>>,
                                   <<"Route may not be registered or server isn't running">>) >>,
                 requested |-> TRUE, stop |-> FALSE, raises |-> FALSE]
           [] outcome \in {"URLError", "TimeoutError", "OSError"} ->
                [findings |-> << EFinding("info", ".", 0,
                                   <<"Could not reach ", "http://localhost:8000">>,
                                   <<"Start the backend with 'make backend-dev' before using --live">>) >>,
                 requested |-> TRUE, stop |-> FALSE, raises |-> FALSE]
           [] outcome = "HTTPException" ->
                [findings |-> <<>>, requested |-> TRUE, stop |-> TRUE,
                 raises |-> TRUE]
           [] OTHER ->
                [findings |-> <<>>, requested |-> TRUE, stop |-> FALSE,
                 raises |-> FALSE]

\* _live_probe: one turn of the loop, for route r and the outcome of its
\* request; what is added to the findings, whether a request is made,
\* whether the loop breaks and whether an exception leaves the method
ProbeRouteResult(r, outcome) ==
    IF r.method # "GET" \/ Parameterized(r.path)
    THEN [findings |-> <<>>, requested |-> FALSE, stop |-> FALSE,
          raises |-> FALSE]
    ELSE CASE outcome \in {"500", "HTTPError 503"} ->
                [findings |-> << EFinding("error", r.file, r.line,
                                   <<"Live probe returned ", r.method, r.path,
                                     IF outcome = "500" THEN 500 ELSE 503>>,
                                   <<"Check server logs for the error">>) >>,
                 requested |-> TRUE, stop |-> FALSE, raises |-> FALSE]
           [] outcome = "HTTPError 404" ->
                [findings |-> << EFinding("warning", r.file, r.line,
                                   <<"Live probe returned ", r.method, r.path, 404>>,
                                   <<"Route may not be registered or server isn't running">>) >>,
                 requested |-> TRUE, stop |-> FALSE, raises |-> FALSE]
           [] outcome \in {"URLError", "TimeoutError", "OSError"} ->
                [findings |-> << EFinding("info", ".", 0,
                                   <<"Could not reach ", "http://localhost:8000">>,
                                   <<"Start the backend with 'make backend-dev' before using --live">>) >>,
                 requested |-> TRUE, stop |-> TRUE, raises |-> FALSE]
           [] outcome = "HTTPException" ->
                [findings |-> <<>>, requested |-> TRUE, stop |-> TRUE,
                 raises |-> TRUE]
           [] OTHER ->
                [findings |-> <<>>, requested |-> TRUE, stop |-> FALSE,
                 raises |-> FALSE]

\* EndpointAuditor.run up to the call of _live_probe: _parse_all_routes
\* (which raises the OSError of an unreadable route file) and the four
\* static checks
EndpointStatic ==
    /\ epc = "new"
    /\ \E read_ok \in BOOLEAN :
         IF route_files /\ ~read_ok
         THEN /\ epc' = "raised"
              /\ UNCHANGED efindings
         ELSE IF routes = <<>>
         THEN /\ efindings' = << EFinding("info", ".", 0,
                                   <<"No route definitions found">>,
                                   <<"Routes are expected in api.py, routes.py, controllers.py, etc.">>) >>
              /\ epc' = "done"
         ELSE /\ efindings' = _check_duplicates(routes) \o _check_stubs(routes)
                                \o _check_auth(routes) \o _check_naming(routes)
              /\ epc' = IF live THEN "probe" ELSE "done"
    /\ UNCHANGED <<route_files, routes, live, pidx, requests>>

\* _live_probe: one turn of the loop
ProbeRoute ==
    /\ epc = "probe"
    /\ pidx <= Len(routes)
    /\ \E outcome \in ProbeOutcomes :
         LET r == routes[pidx]
             res == ProbeRouteResult(r, outcome)
         IN /\ efindings' = efindings \o res.findings
            /\ requests' = IF res.requested
                           THEN Append(requests, [method |-> "GET",
                                                   url |-> <<"http://localhost:8000", r.path>>,
                                                   outcome |-> outcome])
                           ELSE requests
            /\ pidx' = IF res.stop THEN Len(routes) + 1 ELSE pidx + 1
            /\ epc' = IF res.raises THEN "raised" ELSE epc
    /\ UNCHANGED <<route_files, routes, live>>

\* EndpointAuditor.run: return self.findings after _live_probe
EndpointReturn ==
    /\ epc = "probe"
    /\ pidx > Len(routes)
    /\ epc' = "done"
    /\ UNCHANGED <<route_files, routes, live, pidx, efindings, requests>>

\* the endpoint auditor does not exist
EndpointIdle ==
    /\ route_files = FALSE /\ routes = <<>> /\ live = FALSE /\ epc = "idle"
    /\ pidx = 1 /\ efindings = <<>> /\ requests = <<>>

----------------------------------------------------------------------------
(* types.py *)

\* A field name is a sequence of characters; a schema name, an interface
\* name and a type string are strings, with what the string methods give for
\* each in the tables below.

\* python_schemas.py: PydanticField, PydanticSchema
PydanticField(n, ty, opt, cs) ==
    [name |-> n, type_str |-> ty, optional |-> opt, constraints |-> cs]
PydanticSchema(n, f, l, fds) == [name |-> n, file |-> f, line |-> l, fields |-> fds]

\* typescript_types.py: TSField, TSInterface
TSField(n, ty, opt) == [name |-> n, type_str |-> ty, optional |-> opt]
TSInterface(n, f, l, fds) == [name |-> n, file |-> f, line |-> l, fields |-> fds]

\* zod_schemas.py: ZodField, ZodSchema
ZodField(n, ty, opt, cs) ==
    [name |-> n, type_str |-> ty, optional |-> opt, constraints |-> cs]
ZodSchema(n, f, l, fds) == [name |-> n, file |-> f, line |-> l, fields |-> fds]

\* TYPE_MAP.get(py_type, set())
TYPE_MAP(py_type) ==
    CASE py_type = "str" -> {"string"}
      [] py_type = "int" -> {"number"}
      [] py_type = "float" -> {"number"}
      [] py_type = "bool" -> {"boolean"}
      [] py_type = "list" -> {"array", "Array"}
      [] py_type = "dict" -> {"object", "Record"}
      [] py_type = "datetime" -> {"string", "Date"}
      [] py_type = "date" -> {"string", "Date"}
      [] py_type = "uuid" -> {"string"}
      [] py_type = "UUID" -> {"string"}
      [] py_type = "Decimal" -> {"number", "string"}
      [] OTHER -> {}

\* the containment test taken as equality of the two type strings
TypeStrIs(type_str, t) == type_str = t

\* t in type_str, for the frontend type strings of the model
TypeStrHas(type_str, t) ==
    <<type_str, t>> \in { <<"string", "string">>, <<"number", "number">>,
                          <<"boolean", "boolean">>, <<"string | null", "string">>,
                          <<"Array<string>", "Array">>, <<"Array<string>", "string">>,
                          <<"Date", "Date">> }

\* str.islower / str.upper on one character
IsLowerChar(c) == c \in {"a", "b"}
ToUpperChar(c) ==
    CASE c = "a" -> "A"
      [] c = "b" -> "B"
      [] OTHER -> c

\* snake_to_camel: SNAKE_RE.sub(lambda m: m.group(1).upper(), name), the
\* matches of "_([a-z])" taken from left to right
snake_to_camel(name) ==
    LET RECURSIVE Sub(_)
        Sub(i) ==
            IF i > Len(name) THEN <<>>
            ELSE IF name[i] = "_" /\ i < Len(name) /\ IsLowerChar(name[i + 1])
                 THEN <<ToUpperChar(name[i + 1])>> \o Sub(i + 2)
                 ELSE <<name[i]>> \o Sub(i + 1)
    IN Sub(1)

\* str.isupper / str.lower on one character
IsUpperChar(c) == c \in {"A", "B"}
ToLowerChar(c) ==
    CASE c = "A" -> "a"
      [] c = "B" -> "b"
      [] OTHER -> c

\* str.lstrip("_")
LStripUnderscore(s) ==
    LET RECURSIVE Strip(_)
        Strip(i) ==
            IF i > Len(s) THEN <<>>
            ELSE IF s[i] = "_" THEN Strip(i + 1)
                 ELSE SubSeq(s, i, Len(s))
    IN Strip(1)

\* camel_to_snake with the capitals only lowered, no "_" put before them
camel_to_snake_lower_only(name) ==
    LStripUnderscore([i \in 1..Len(name) |-> ToLowerChar(name[i])])

\* camel_to_snake: re.sub(r"([A-Z])", r"_\1", name), then .lower().lstrip("_")
camel_to_snake(name) ==
    LET RECURSIVE Sub(_)
        Sub(i) ==
            IF i > Len(name) THEN <<>>
            ELSE IF IsUpperChar(name[i])
                 THEN <<"_", name[i]>> \o Sub(i + 1)
                 ELSE <<name[i]>> \o Sub(i + 1)
        s == Sub(1)
    IN LStripUnderscore([i \in 1..Len(s) |-> ToLowerChar(s[i])])

\* {x.name: x for x in items}.get(name): the index of the last item of that
\* name, 0 when there is none
IndexByName(items, name) ==
    LET hits == {i \in 1..Len(items) : items[i].name = name}
    IN IF hits = {} THEN 0 ELSE CHOOSE i \in hits : \A j \in hits : j <= i

\* _py_to_frontend_type
_py_to_frontend_type(py_type) ==
    CASE py_type = "str" -> "string"
      [] py_type = "int" -> "number"
      [] py_type = "float" -> "number"
      [] py_type = "bool" -> "boolean"
      [] OTHER -> py_type

TyFinding(sev, file, line, msg, sg) == AuditFinding("types", sev, file, line, msg, sg)

\* _compare_fields_ts: the findings for one backend field
CompareFieldTs(py, ts, pf) ==
    LET camel == snake_to_camel(pf.name)
        exact == IndexByName(ts.fields, pf.name)
        k == IF exact # 0 THEN exact ELSE IndexByName(ts.fields, camel)
    IN IF k = 0
       THEN << TyFinding("warning", ts.file, ts.line,
                         <<"TS interface missing field: ", ts.name, camel, pf.name>>,
                         <<"Add field to interface: ", camel,
                           _py_to_frontend_type(pf.type_str), ts.name>>) >>
       ELSE LET tf == ts.fields[k]
                expected_ts_types == TYPE_MAP(pf.type_str)
            IN (IF expected_ts_types # {}
                   /\ ~\E ty \in expected_ts_types : TypeStrHas(tf.type_str, ty)
                THEN << TyFinding("warning", ts.file, ts.line,
                                  <<"Type mismatch: ", py.name, pf.name, pf.type_str,
                                    ts.name, tf.name, tf.type_str>>,
                                  <<"Expected TS type containing one of: ",
                                    expected_ts_types>>) >>
                ELSE <<>>)
               \o (IF pf.optional /\ ~tf.optional
                   THEN << TyFinding("info", ts.file, ts.line,
                                     <<"Optionality mismatch: ", py.name, pf.name,
                                       ts.name, tf.name>>,
                                     <<"Consider making optional with '?': ", tf.name>>) >>
                   ELSE <<>>)

\* _compare_fields_ts
_compare_fields_ts(py, ts) ==
    LET RECURSIVE Loop(_)
        Loop(i) == IF i > Len(py.fields) THEN <<>>
                   ELSE CompareFieldTs(py, ts, py.fields[i]) \o Loop(i + 1)
    IN Loop(1)

\* _compare_with_ts
_compare_with_ts(py_schemas, ts_interfaces) ==
    LET RECURSIVE Loop(_)
        Loop(i) ==
            IF i > Len(py_schemas) THEN <<>>
            ELSE LET schema == py_schemas[i]
                     k == IndexByName(ts_interfaces, schema.name)
                 IN (IF k = 0
                     THEN << TyFinding("warning", schema.file, schema.line,
                                       <<"Pydantic schema has no matching TS interface: ",
                                         schema.name>>,
                                       <<"Create interface in frontend types: ",
                                         schema.name>>) >>
                     ELSE _compare_fields_ts(schema, ts_interfaces[k]))
                    \o Loop(i + 1)
    IN Loop(1)

\* name.lower(), for the schema names of the model
NameLower(name) ==
    CASE name = "UserSchema" -> "userschema"
      [] name = "userSchema" -> "userschema"
      [] name = "User" -> "user"
      [] name = "Item" -> "item"
      [] OTHER -> name

\* name.replace("Schema", "")
NameWithoutSchema(name) ==
    CASE name = "UserSchema" -> "User"
      [] name = "userSchema" -> "user"
      [] OTHER -> name

\* f"{name[0].lower()}{name[1:]}"
NameLowerFirst(name) ==
    CASE name = "UserSchema" -> "userSchema"
      [] name = "User" -> "user"
      [] name = "Item" -> "item"
      [] OTHER -> name

\* zod_by_name.get(c): the index of the last validation schema stored under
\* the key c (each is stored under its name and its lowered name), 0 if none
ZodByName(zod_schemas, c) ==
    LET hits == {i \in 1..Len(zod_schemas) :
                    c \in {zod_schemas[i].name, NameLower(zod_schemas[i].name)}}
    IN IF hits = {} THEN 0 ELSE CHOOSE i \in hits : \A j \in hits : j <= i

\* _compare_fields_zod: the findings for one backend field
CompareFieldZod(py, zod, pf) ==
    LET camel == snake_to_camel(pf.name)
        exact == IndexByName(zod.fields, pf.name)
        k == IF exact # 0 THEN exact ELSE IndexByName(zod.fields, camel)
    IN IF k = 0
       THEN << TyFinding("warning", zod.file, zod.line,
                         <<"Zod schema missing field: ", zod.name, camel, pf.name>>,
                         <<"Add field to schema: ", camel,
                           _py_to_frontend_type(pf.type_str), zod.name>>) >>
       ELSE LET zf == zod.fields[k]
            IN (IF "min_length" \in DOMAIN pf.constraints
                   /\ "min" \notin DOMAIN zf.constraints
                THEN << TyFinding("info", zod.file, zod.line,
                                  <<"No .min() constraint: ", py.name, pf.name,
                                    pf.constraints["min_length"], zod.name, zf.name>>,
                                  <<"Add .min() to match backend validation: ",
                                    pf.constraints["min_length"]>>) >>
                ELSE <<>>)
               \o (IF "max_length" \in DOMAIN pf.constraints
                      /\ "max" \notin DOMAIN zf.constraints
                   THEN << TyFinding("info", zod.file, zod.line,
                                     <<"No .max() constraint: ", py.name, pf.name,
                                       pf.constraints["max_length"], zod.name, zf.name>>,
                                     <<"Add .max() to match backend validation: ",
                                       pf.constraints["max_length"]>>) >>
                   ELSE <<>>)

\* _compare_fields_zod
_compare_fields_zod(py, zod) ==
    LET RECURSIVE Loop(_)
        Loop(i) == IF i > Len(py.fields) THEN <<>>
                   ELSE CompareFieldZod(py, zod, py.fields[i]) \o Loop(i + 1)
    IN Loop(1)

\* _compare_with_zod
_compare_with_zod(py_schemas, zod_schemas) ==
    LET RECURSIVE Loop(_)
        Loop(i) ==
            IF i > Len(py_schemas) THEN <<>>
            ELSE LET schema == py_schemas[i]
                     candidates == << schema.name, NameLower(schema.name),
                                      NameWithoutSchema(schema.name),
                                      NameLowerFirst(schema.name) >>
                     found == {c \in 1..4 : ZodByName(zod_schemas, candidates[c]) # 0}
                 IN (IF found = {} THEN <<>>
                     ELSE LET c == CHOOSE x \in found : \A y \in found : x <= y
                          IN _compare_fields_zod(schema,
                                 zod_schemas[ZodByName(zod_schemas, candidates[c])]))
                    \o Loop(i + 1)
    IN Loop(1)

\* the finding of TypeSafetyAuditor.run when there is no backend schema
NoSchemasFindingError ==
    TyFinding("error", ".", 0, <<"No Pydantic schemas found">>,
              <<"Define schemas in */schemas/*.py">>)

NoSchemasFinding ==
    TyFinding("info", ".", 0, <<"No Pydantic schemas found">>,
              <<"Define schemas in */schemas/*.py">>)

\* TypeSafetyAuditor.run on what the three parsers yield
TypeSafetyRun(py_schemas, ts_interfaces, zod_schemas) ==
    IF py_schemas = <<>>
    THEN << NoSchemasFinding >>
    ELSE _compare_with_ts(py_schemas, ts_interfaces)
         \o _compare_with_zod(py_schemas, zod_schemas)

----------------------------------------------------------------------------
(* tests.py *)

\* test_files.py: TestCase (class_name "" is None), TestSuite
TestCase(n, f, l, cn, kws) ==
    [name |-> n, file |-> f, line |-> l, class_name |-> cn, keywords |-> kws]
TestSuite(f, fw, cases) == [file |-> f, framework |-> fw, test_cases |-> cases]

\* FEATURE_AREAS, in the order of the dict
FEATURE_AREAS ==
    << [area |-> "auth",
        keywords |-> <<"auth", "login", "register", "signup", "token", "password">>],
       [area |-> "user", keywords |-> <<"user", "profile", "account">>],
       [area |-> "crud",
        keywords |-> <<"create", "read", "update", "delete", "list", "get", "post", "put">>],
       [area |-> "org",
        keywords |-> <<"org", "organization", "team", "member", "role", "permission">>] >>

\* name.lower(), for the test and class names of the model
TestNameLower(name) ==
    CASE name = "TestUser" -> "testuser"
      [] name = "renders Item" -> "renders item"
      [] OTHER -> name

\* schema.name.lower().replace("schema", "")
SchemaStem(name) ==
    CASE name = "UserSchema" -> "user"
      [] name = "userSchema" -> "user"
      [] name = "User" -> "user"
      [] name = "Item" -> "item"
      [] OTHER -> name

\* name_lower in tn, for the stems and lowered test names of the model
StemIn(name_lower, tn) ==
    <<name_lower, tn>> \in { <<"user", "test_user_create">>, <<"user", "testuser">>,
                             <<"item", "renders item">> }

\* tc.name.startswith("test_")
StartsWithTest(name) == name \in {"test_user_create", "test_login"}

TeFinding(sev, file, line, msg, sg) == AuditFinding("tests", sev, file, line, msg, sg)

\* the test cases of all suites, in order
AllTestCases(suites) ==
    LET RECURSIVE Loop(_)
        Loop(i) == IF i > Len(suites) THEN <<>>
                   ELSE suites[i].test_cases \o Loop(i + 1)
    IN Loop(1)

\* _collect_keywords
_collect_keywords(suites) ==
    LET cases == AllTestCases(suites)
    IN UNION {cases[i].keywords : i \in 1..Len(cases)}

\* _check_schema_coverage, schemas being what parse_pydantic_file yields
_check_schema_coverage(schemas, suites) ==
    LET cases == AllTestCases(suites)
        test_names == {TestNameLower(cases[i].name) : i \in 1..Len(cases)}
                      \cup {TestNameLower(cases[i].class_name) :
                               i \in {j \in 1..Len(cases) : cases[j].class_name # ""}}
        RECURSIVE Loop(_)
        Loop(i) ==
            IF i > Len(schemas) THEN <<>>
            ELSE (IF \E tn \in test_names : StemIn(SchemaStem(schemas[i].name), tn)
                  THEN <<>>
                  ELSE << TeFinding("warning", schemas[i].file, schemas[i].line,
                                    <<"No tests found for schema: ", schemas[i].name>>,
                                    <<"Add tests for CRUD and validation: ",
                                      schemas[i].name>>) >>)
                 \o Loop(i + 1)
    IN Loop(1)

\* _check_feature_coverage
_check_feature_coverage(tested_keywords) ==
    LET RECURSIVE Loop(_)
        Loop(i) ==
            IF i > Len(FEATURE_AREAS) THEN <<>>
            ELSE LET kws == FEATURE_AREAS[i].keywords
                 IN (IF \E k \in 1..Len(kws) : kws[k] \in tested_keywords
                     THEN <<>>
                     ELSE << TeFinding("info", ".", 0,
                                       <<"No tests cover the feature area: ",
                                         FEATURE_AREAS[i].area>>,
                                       <<"Add tests for: ", SubSeq(kws, 1, 3)>>) >>)
                    \o Loop(i + 1)
    IN Loop(1)

\* _check_naming (of tests.py)
TestsCheckNaming(suites) ==
    LET RECURSIVE Cases(_, _)
        Cases(s, i) ==
            IF i > Len(s.test_cases) THEN <<>>
            ELSE (IF s.framework = "pytest" /\ ~StartsWithTest(s.test_cases[i].name)
                  THEN << TeFinding("info", s.test_cases[i].file, s.test_cases[i].line,
                                    <<"Pytest function doesn't start with 'test_': ",
                                      s.test_cases[i].name>>,
                                    <<"Prefix test functions with 'test_' for pytest discovery">>) >>
                  ELSE <<>>) \o Cases(s, i + 1)
        RECURSIVE Loop(_)
        Loop(i) == IF i > Len(suites) THEN <<>>
                   ELSE Cases(suites[i], 1) \o Loop(i + 1)
    IN Loop(1)

\* _check_empty_suites
_check_empty_suites(suites) ==
    LET RECURSIVE Loop(_)
        Loop(i) ==
            IF i > Len(suites) THEN <<>>
            ELSE (IF suites[i].test_cases = <<>>
                  THEN << TeFinding("warning", suites[i].file, 1,
                                    <<"Empty test file: ", suites[i].file>>,
                                    <<"Add test cases or remove the file">>) >>
                  ELSE <<>>) \o Loop(i + 1)
    IN Loop(1)

\* the finding of CoverageAuditor.run when there is no test file
NoTestFilesFindingError ==
    TeFinding("error", ".", 0, <<"No test files found">>,
              <<"Add tests in tests/ (pytest) or __tests__/ (vitest)">>)

NoTestFilesFinding ==
    TeFinding("warning", ".", 0, <<"No test files found">>,
              <<"Add tests in tests/ (pytest) or __tests__/ (vitest)">>)

\* CoverageAuditor.run: suites holds one suite for each test file found,
\* schemas is what the schema files parse to
CoverageRun(suites, schemas) ==
    IF suites = <<>>
    THEN << NoTestFilesFinding >>
    ELSE _check_schema_coverage(schemas, suites)
         \o _check_feature_coverage(_collect_keywords(suites))
         \o TestsCheckNaming(suites)
         \o _check_empty_suites(suites)

----------------------------------------------------------------------------
(* dependencies.py *)

\* parsers/dependencies.py: Dependency, DependencyManifest; kind is the
\* file's name, "pyproject.toml" or "package.json"
Dependency(n, vc, l, d) == [name |-> n, version_constraint |-> vc, line |-> l, dev |-> d]
DependencyManifest(f, k, deps) == [file |-> f, kind |-> k, dependencies |-> deps]

DEPRECATED_PYTHON == {"nose", "mock", "six", "future"}
DEPRECATED_JS == {"moment", "request", "tslint"}
TYPE_CHECKERS == {"mypy", "pyright", "pytype"}

\* dep.name.lower().replace("-", "_"), for the package names of the model
PyLowerName(name) ==
    CASE name = "Django" -> "django"
      [] name = "types-requests" -> "types_requests"
      [] OTHER -> name

\* dep.name.lower()
JsLowerName(name) ==
    CASE name = "TypeScript" -> "typescript"
      [] OTHER -> name

\* lower_name.startswith("types_") or lower_name.startswith("types-")
IsTypesStub(lower_name) == lower_name = "types_requests"

\* ">=" in constraint and "<" in constraint, for the constraints of the model
HasGreaterEqual(vc) == vc \in {">=4.2", ">=4.2,<5.0"}
HasLess(vc) == vc \in {">=4.2,<5.0", "<2.0"}

DFinding(sev, file, line, msg, sg) ==
    AuditFinding("dependencies", sev, file, line, msg, sg)

\* seen_names after the first i dependencies: the index of the first
\* dependency among them with the lowered name, 0 if none
SeenIndex(deps, lower, i, name) ==
    LET hits == {j \in 1..i : lower[j] = name}
    IN IF hits = {} THEN 0 ELSE CHOOSE j \in hits : \A k \in hits : j <= k

\* the findings for the duplicate check of dependency i, msg being the
\* message's text
DuplicateDependency(deps, lower, i, file, msg, sg) ==
    LET prev == SeenIndex(deps, lower, i - 1, lower[i])
    IN IF prev # 0 /\ deps[prev].dev # deps[i].dev
       THEN << DFinding("error", file, deps[i].line, <<msg, deps[i].name>>, sg) >>
       ELSE <<>>

\* _check_python_deps
_check_python_deps(manifest) ==
    LET deps == manifest.dependencies
        rel_file == manifest.file
        lower == [i \in 1..Len(deps) |-> PyLowerName(deps[i].name)]
        has_type_checker == \E i \in 1..Len(deps) : lower[i] \in TYPE_CHECKERS
        has_type_stubs == {lower[i] : i \in {j \in 1..Len(deps) : IsTypesStub(lower[j])}}
        RECURSIVE Loop(_)
        Loop(i) ==
            IF i > Len(deps) THEN <<>>
            ELSE LET dep == deps[i]
                 IN (IF dep.version_constraint = ""
                     THEN << DFinding("warning", rel_file, dep.line,
                                      <<"Unpinned dependency: ", dep.name>>,
                                      <<"Add version constraint, e.g. >=1.0: ", dep.name>>) >>
                     ELSE IF HasGreaterEqual(dep.version_constraint)
                             /\ ~HasLess(dep.version_constraint)
                     THEN << DFinding("info", rel_file, dep.line,
                                      <<"Overly broad constraint: ", dep.name,
                                        dep.version_constraint>>,
                                      <<"Consider adding an upper bound version constraint">>) >>
                     ELSE <<>>)
                    \o (IF lower[i] \in DEPRECATED_PYTHON
                        THEN << DFinding("warning", rel_file, dep.line,
                                         <<"Deprecated package: ", dep.name>>,
                                         <<"DEPRECATED_PYTHON", lower[i]>>) >>
                        ELSE <<>>)
                    \o DuplicateDependency(deps, lower, i, rel_file,
                           "Duplicate dependency in both regular and dev dependencies: ",
                           <<"Remove from one of the dependency lists">>)
                    \o Loop(i + 1)
        stubs_map == << <<"django", "django_stubs", "django-stubs">>,
                        <<"requests", "types_requests", "types-requests">>,
                        <<"pyyaml", "types_pyyaml", "types-pyyaml">> >>
        RECURSIVE Stubs(_)
        Stubs(k) ==
            IF k > Len(stubs_map) THEN <<>>
            ELSE LET pkg == stubs_map[k][1]
                     seen == SeenIndex(deps, lower, Len(deps), pkg)
                 IN (IF seen # 0 /\ stubs_map[k][2] \notin has_type_stubs
                     THEN << DFinding("info", rel_file, deps[seen].line,
                                      <<"Missing type stubs for: ", pkg>>,
                                      <<"Add to dev dependencies: ", stubs_map[k][3]>>) >>
                     ELSE <<>>) \o Stubs(k + 1)
    IN Loop(1) \o (IF has_type_checker THEN Stubs(1) ELSE <<>>)

\* _check_node_deps
_check_node_deps(manifest) ==
    LET deps == manifest.dependencies
        rel_file == manifest.file
        lower == [i \in 1..Len(deps) |-> JsLowerName(deps[i].name)]
        RECURSIVE Loop(_)
        Loop(i) ==
            IF i > Len(deps) THEN <<>>
            ELSE LET dep == deps[i]
                 IN (IF dep.version_constraint \in {"*", "latest", ""}
                     THEN << DFinding("warning", rel_file, dep.line,
                                      <<"Unpinned dependency: ", dep.name,
                                        IF dep.version_constraint = "" THEN "no version"
                                        ELSE dep.version_constraint>>,
                                      <<"Pin to a specific version range, e.g. ^1.0.0">>) >>
                     ELSE <<>>)
                    \o (IF lower[i] \in DEPRECATED_JS
                        THEN << DFinding("warning", rel_file, dep.line,
                                         <<"Deprecated package: ", dep.name>>,
                                         <<"DEPRECATED_JS", lower[i]>>) >>
                        ELSE <<>>)
                    \o DuplicateDependency(deps, lower, i, rel_file,
                           "Duplicate dependency in deps and devDeps: ",
                           <<"Remove from one of the dependency objects">>)
                    \o Loop(i + 1)
    IN Loop(1)

\* _check_cross_manifest_conflicts
_check_cross_manifest_conflicts(manifests) ==
    LET RECURSIVE Versions(_, _)
        Versions(m, i) ==
            IF m > Len(manifests) THEN <<>>
            ELSE IF i > Len(manifests[m].dependencies) THEN Versions(m + 1, 1)
            ELSE (IF JsLowerName(manifests[m].dependencies[i].name) = "typescript"
                  THEN << <<manifests[m].file,
                            manifests[m].dependencies[i].version_constraint>> >>
                  ELSE <<>>) \o Versions(m, i + 1)
        ts_versions == Versions(1, 1)
        versions_set == {ts_versions[i][2] : i \in 1..Len(ts_versions)}
    IN IF Len(ts_versions) > 1 /\ Cardinality(versions_set) > 1
       THEN [i \in 1..Len(ts_versions) |->
                DFinding("warning", ts_versions[i][1], 1,
                         <<"TypeScript version conflict: ", ts_versions[i][2]>>,
                         <<"Align TypeScript versions across packages">>)]
       ELSE <<>>

\* DependencyAuditor.run checking every manifest as a pyproject.toml
DependencyRunOneDialect(manifests) ==
    LET RECURSIVE Loop(_)
        Loop(i) ==
            IF i > Len(manifests) THEN <<>>
            ELSE _check_python_deps(manifests[i]) \o Loop(i + 1)
    IN Loop(1) \o _check_cross_manifest_conflicts(manifests)

\* DependencyAuditor.run on the manifests that the dependency files parse to
DependencyRun(manifests) ==
    LET RECURSIVE Loop(_)
        Loop(i) ==
            IF i > Len(manifests) THEN <<>>
            ELSE (IF manifests[i].kind = "pyproject.toml"
                  THEN _check_python_deps(manifests[i])
                  ELSE _check_node_deps(manifests[i])) \o Loop(i + 1)
    IN Loop(1) \o _check_cross_manifest_conflicts(manifests)

----------------------------------------------------------------------------
(* vulnerabilities.py *)

VFinding(sev, file, line, msg, sg) ==
    AuditFinding("vulnerabilities", sev, file, line, msg, sg)

\* What subprocess.run of the external scanner gives: ran is FALSE for
\* FileNotFoundError and TimeoutExpired; stdout is "not json", "clean" (a
\* JSON report without vulnerabilities), "vulnerable" (a JSON report with
\* two) or "scalar" (JSON that is neither an object nor a list)
ToolResults ==
    { [ran |-> FALSE, returncode |-> 0, stdout |-> "not json"],
      [ran |-> TRUE, returncode |-> 2, stdout |-> "clean"],
      [ran |-> TRUE, returncode |-> 0, stdout |-> "not json"],
      [ran |-> TRUE, returncode |-> 0, stdout |-> "clean"],
      [ran |-> TRUE, returncode |-> 1, stdout |-> "vulnerable"],
      [ran |-> TRUE, returncode |-> 0, stdout |-> "scalar"] }

\* What the query of api.osv.dev gives: URLError, TimeoutError (an OSError),
\* a body that is not JSON (JSONDecodeError), a JSON object without
\* vulnerabilities, one with a vulnerability of CVSS_V3 severity, one with
\* a vulnerability without a severity, or JSON that is an array
OsvResults == {"URLError", "TimeoutError", "JSONDecodeError", "none", "CVSS_V3",
               "unrated", "array"}

\* an external call of the vulnerability auditor, as the run's trace keeps it
VCall(op, manifest, dep, outcome) ==
    [op |-> op, manifest |-> manifest.file, dep |-> dep, outcome |-> outcome]

\* _map_severity
_map_severity(fix_versions) == IF fix_versions # <<>> THEN "error" ELSE "warning"

\* _npm_severity
_npm_severity(severity_str) ==
    IF severity_str \in {"critical", "high"} THEN "error"
    ELSE IF severity_str = "moderate" THEN "warning"
    ELSE "info"

\* _osv_severity, for a vulnerability whose severity list holds the types
_osv_severity(sev_types) ==
    IF \E i \in 1..Len(sev_types) : sev_types[i] = "CVSS_V3" THEN "error"
    ELSE "warning"

\* re.sub(r"^[>=<~^!= ]+", "", version), for the constraints of the model
CleanVersion(version) ==
    CASE version = ">=4.2" -> "4.2"
      [] version = ">=4.2,<5.0" -> "4.2,<5.0"
      [] version = "<2.0" -> "2.0"
      [] version = "==1.3" -> "1.3"
      [] version = "^5.0.0" -> "5.0.0"
      [] version = "~5.1.0" -> "5.1.0"
      [] OTHER -> version

\* _try_pip_audit: what it returns, the findings it adds and whether it
\* raises (AttributeError of data.get on JSON that is no object)
_try_pip_audit(manifest, tool) ==
    IF ~tool.ran \/ tool.returncode \notin {0, 1} \/ tool.stdout = "not json"
    THEN [ok |-> FALSE, findings |-> <<>>, raises |-> FALSE]
    ELSE IF tool.stdout = "scalar"
    THEN [ok |-> FALSE, findings |-> <<>>, raises |-> TRUE]
    ELSE IF tool.stdout = "clean"
    THEN [ok |-> TRUE, findings |-> <<>>, raises |-> FALSE]
    ELSE [ok |-> TRUE, raises |-> FALSE,
          findings |->
            << VFinding(_map_severity(<<"4.2.1">>), manifest.file, 0,
                        <<"Vulnerability in: ", "django", "4.2", "PYSEC-1">>,
                        <<"Upgrade to: ", <<"4.2.1">> >>),
               VFinding(_map_severity(<<>>), manifest.file, 0,
                        <<"Vulnerability in: ", "django", "4.2", "PYSEC-2">>,
                        <<"Upgrade to: ", <<>> >>) >>]

\* _try_npm_audit
_try_npm_audit(manifest, tool) ==
    IF ~tool.ran \/ tool.stdout = "not json"
    THEN [ok |-> FALSE, findings |-> <<>>, raises |-> FALSE]
    ELSE IF tool.stdout = "scalar"
    THEN [ok |-> FALSE, findings |-> <<>>, raises |-> TRUE]
    ELSE IF tool.stdout = "clean"
    THEN [ok |-> TRUE, findings |-> <<>>, raises |-> FALSE]
    ELSE [ok |-> TRUE, raises |-> FALSE,
          findings |->
            << VFinding(_npm_severity("high"), manifest.file, 0,
                        <<"Vulnerability in: ", "lodash", "Prototype Pollution">>,
                        <<"Run 'npm audit fix' or update: ", "lodash">>),
               VFinding(_npm_severity("low"), manifest.file, 0,
                        <<"Vulnerability in: ", "minimist">>,
                        <<"Run 'npm audit fix' or update: ", "minimist">>) >>]

\* _check_osv for one dependency: the findings it adds, the calls it makes
\* (itself, and urlopen when the cleaned version is not empty) and whether it
\* raises (AttributeError of data.get on JSON that is no object)
_check_osv(dep, manifest, osv) ==
    LET clean_version == CleanVersion(dep.version_constraint)
        called == VCall("_check_osv", manifest, dep.name, "")
        opened == VCall("urlopen", manifest, dep.name, osv)
    IN IF clean_version = ""
       THEN [findings |-> <<>>, calls |-> <<called>>, raises |-> FALSE]
       ELSE IF osv \in {"URLError", "TimeoutError", "JSONDecodeError", "none"}
       THEN [findings |-> <<>>, calls |-> <<called, opened>>, raises |-> FALSE]
       ELSE IF osv = "array"
       THEN [findings |-> <<>>, calls |-> <<called, opened>>, raises |-> TRUE]
       ELSE [findings |->
               << VFinding(_osv_severity(IF osv = "CVSS_V3" THEN <<"CVSS_V3">> ELSE <<>>),
                           manifest.file, dep.line,
                           <<"Known vulnerability in: ", dep.name, clean_version, "GHSA-1">>,
                           <<"Check https://osv.dev/vulnerability/", "GHSA-1">>) >>,
             calls |-> <<called, opened>>, raises |-> FALSE]

\* _check_python_vulns / _check_node_vulns for one parsed manifest; tool is
\* what the scanner gives and osv[i] what the database gives for the i-th
\* dependency
CheckVulns(manifest, tool, osv) ==
    IF manifest.dependencies = <<>>
    THEN [findings |-> <<>>, calls |-> <<>>, raises |-> FALSE]
    ELSE LET tried == IF manifest.kind = "pyproject.toml"
                      THEN _try_pip_audit(manifest, tool)
                      ELSE _try_npm_audit(manifest, tool)
             scanned_by == << VCall("subprocess.run", manifest, "", tool) >>
             RECURSIVE Osv(_)
             Osv(i) ==
                 IF i > Len(manifest.dependencies)
                 THEN [findings |-> <<>>, calls |-> <<>>, raises |-> FALSE]
                 ELSE LET r == _check_osv(manifest.dependencies[i], manifest, osv[i])
                          rest == Osv(i + 1)
                      IN IF r.raises THEN r
                         ELSE [findings |-> r.findings \o rest.findings,
                               calls |-> r.calls \o rest.calls,
                               raises |-> rest.raises]
         IN IF tried.raises \/ tried.ok
            THEN [findings |-> tried.findings, calls |-> scanned_by,
                  raises |-> tried.raises]
            ELSE [findings |-> Osv(1).findings, calls |-> scanned_by \o Osv(1).calls,
                  raises |-> Osv(1).raises]

\* VulnerabilityAuditor.run with one outcome for every scanner call and one
\* for every database query: the findings, and whether an exception leaves it
VulnerabilityRun(manifests, tool, osv) ==
    LET RECURSIVE Loop(_)
        Loop(i) ==
            IF i > Len(manifests) THEN [findings |-> <<>>, raises |-> FALSE]
            ELSE LET r == CheckVulns(manifests[i], tool,
                                     [d \in 1..Len(manifests[i].dependencies) |-> osv])
                     rest == Loop(i + 1)
                 IN IF r.raises THEN [findings |-> r.findings, raises |-> TRUE]
                    ELSE [findings |-> r.findings \o rest.findings,
                          raises |-> rest.raises]
    IN Loop(1)

----------------------------------------------------------------------------
(* commands/audit.py, plugins.py *)

\* SEVERITY_ORDER
SEVERITY_ORDER(s) ==
    CASE s = "info" -> 0
      [] s = "warning" -> 1
      [] s = "error" -> 2

\* the keys of AUDITOR_CLASSES, in the order of the dict
AUDITOR_CLASSES ==
    <<"types", "quality", "endpoints", "tests", "dependencies", "vulnerabilities">>

\* AuditType(t) does not raise ValueError
ValidAuditType(t) == \E i \in 1..Len(AUDITOR_CLASSES) : AUDITOR_CLASSES[i] = t

\* Severity(s) does not raise ValueError
ValidSeverityAny(s) == TRUE

ValidSeverity(s) == s \in Severity

\* config.should_run(audit_type); types is None when audit_types is falsy
should_run(audit_type) ==
    audit_types = <<>> \/ \E i \in 1..Len(audit_types) : audit_types[i] = audit_type

\* the test of the severity filter, with the strict comparison
SeverityKeptStrict(severity, min) == SEVERITY_ORDER(severity) > SEVERITY_ORDER(min)

\* the test of the severity filter
SeverityKept(severity, min) == SEVERITY_ORDER(severity) >= SEVERITY_ORDER(min)

\* the files of the project that each finder yields
IsRouteFile(path) == path \in {"api.py", "views.py"}
IsSchemaFile(path) == path = "schemas.py"
IsTypesFile(path) == path = "types.ts"
IsZodFile(path) == path = "schemas.ts"
IsTestFile(path) == path = "test_views.py"
IsPluginFile(path) == path = "matt-stack-plugins/check.py"

\* the part of run_audit's state that each exit leaves alone
AuditConfigVars == <<path_is_dir, audit_types, min_severity, no_todo, json_output,
                     html_output, project>>
AuditRunVars == <<aidx, plugin_classes, rfindings, unfiltered, auditors_run,
                  results, raised, printed, html_written>>

\* run_audit: if not project_path.is_dir(): raise typer.Exit(code=1)
ValidatePath ==
    /\ apc = "path"
    /\ IF path_is_dir
       THEN apc' = "types" /\ UNCHANGED exit_code
       ELSE apc' = "exit" /\ exit_code' = 1
    /\ UNCHANGED <<AuditConfigVars, AuditRunVars, todoVars, callVars, qualityVars, endpointVars>>

\* run_audit: the audit type strings
ParseTypes ==
    /\ apc = "types"
    /\ IF \A i \in 1..Len(audit_types) : ValidAuditType(audit_types[i])
       THEN apc' = "severity" /\ UNCHANGED exit_code
       ELSE apc' = "exit" /\ exit_code' = 1
    /\ UNCHANGED <<AuditConfigVars, AuditRunVars, todoVars, callVars, qualityVars, endpointVars>>

\* run_audit: the min severity string, then AuditConfig and AuditReport
ParseSeverity ==
    /\ apc = "severity"
    /\ IF min_severity = "" \/ ValidSeverity(min_severity)
       THEN apc' = "auditors" /\ UNCHANGED exit_code
       ELSE apc' = "exit" /\ exit_code' = 1
    /\ UNCHANGED <<AuditConfigVars, AuditRunVars, todoVars, callVars, qualityVars, endpointVars>>

\* the loop over AUDITOR_CLASSES: an audit type that should not run
SkipAuditor ==
    /\ apc = "auditors"
    /\ aidx <= Len(AUDITOR_CLASSES)
    /\ ~should_run(AUDITOR_CLASSES[aidx])
    /\ aidx' = aidx + 1
    /\ UNCHANGED <<AuditConfigVars, apc, plugin_classes, rfindings, unfiltered,
                   auditors_run, results, raised, exit_code, printed, html_written,
                   todoVars, callVars, qualityVars, endpointVars>>

\* the findings of an auditor filtered by the threshold before they are merged
ReturnedFiltered(name, findings) ==
    /\ rfindings' = rfindings \o
          (IF min_severity # ""
           THEN SelectSeq(findings, LAMBDA f : SeverityKept(f.severity, min_severity))
           ELSE findings)
    /\ auditors_run' = Append(auditors_run, name)
    /\ results' = Append(results, [auditor |-> name, findings |-> findings])
    /\ UNCHANGED <<apc, raised>>

\* findings = auditor.run(); report.findings.extend(findings);
\* report.auditors_run.append(name)
Returned(name, findings) ==
    /\ rfindings' = rfindings \o findings
    /\ auditors_run' = Append(auditors_run, name)
    /\ results' = Append(results, [auditor |-> name, findings |-> findings])
    /\ UNCHANGED <<apc, raised>>

\* auditor.run() raises: nothing in run_audit catches it
Raised(name) ==
    /\ apc' = "crashed"
    /\ raised' = name
    /\ UNCHANGED <<rfindings, auditors_run, results>>

\* a turn of the loop for an auditor that reads files and writes none;
\* reads is whether it has a file to read, whose read may raise OSError
RunAuditor(i, reads, run) ==
    /\ apc = "auditors"
    /\ aidx = i
    /\ should_run(AUDITOR_CLASSES[i])
    /\ aidx' = i + 1
    /\ \E read_ok \in BOOLEAN :
          IF (reads /\ ~read_ok) \/ run.raises
          THEN Raised(<<AUDITOR_CLASSES[i]>>)
          ELSE Returned(<<AUDITOR_CLASSES[i]>>, run.findings)
    /\ UNCHANGED <<AuditConfigVars, plugin_classes, unfiltered, exit_code, printed,
                   html_written, todoVars, callVars, qualityVars, endpointVars>>

\* TypeSafetyAuditor(config).run()
RunTypeSafety ==
    RunAuditor(1, \E f \in DOMAIN fs : IsSchemaFile(f) \/ IsTypesFile(f) \/ IsZodFile(f),
               [findings |-> TypeSafetyRun(project.py_schemas, project.ts_interfaces,
                                           project.zod_schemas),
                raises |-> FALSE])

\* CodeQualityAuditor(config)
StartQuality ==
    /\ apc = "auditors"
    /\ aidx = 2
    /\ should_run("quality")
    /\ qpc = "idle"
    /\ qpc' = "new"
    /\ UNCHANGED <<fs, fs0, fix, queue, scanned, fix_count, qfindings, written>>
    /\ UNCHANGED <<auditVars, todoVars, callVars, endpointVars>>

\* the findings of CodeQualityAuditor.run() reach the report
FinishQuality ==
    /\ apc = "auditors"
    /\ aidx = 2
    /\ qpc = "done"
    /\ aidx' = 3
    /\ Returned(<<"quality">>, qfindings)
    /\ UNCHANGED <<AuditConfigVars, plugin_classes, unfiltered, exit_code, printed,
                   html_written, todoVars, callVars, qualityVars, endpointVars>>

\* EndpointAuditor(config)
StartEndpoints ==
    /\ apc = "auditors"
    /\ aidx = 3
    /\ should_run("endpoints")
    /\ epc = "idle"
    /\ epc' = "new"
    /\ UNCHANGED <<route_files, routes, live, pidx, efindings, requests>>
    /\ UNCHANGED <<auditVars, todoVars, callVars, qualityVars>>

\* EndpointAuditor.run() returned or raised
FinishEndpoints ==
    /\ apc = "auditors"
    /\ aidx = 3
    /\ epc \in {"done", "raised"}
    /\ aidx' = 4
    /\ IF epc = "raised" THEN Raised(<<"endpoints">>)
       ELSE Returned(<<"endpoints">>, efindings)
    /\ UNCHANGED <<AuditConfigVars, plugin_classes, unfiltered, exit_code, printed,
                   html_written, todoVars, callVars, qualityVars, endpointVars>>

\* CoverageAuditor(config).run()
RunCoverage ==
    RunAuditor(4, project.suites # <<>>,
               [findings |-> CoverageRun(project.suites, project.py_schemas),
                raises |-> FALSE])

\* DependencyAuditor(config).run()
RunDependencies ==
    RunAuditor(5, project.manifests # <<>>,
               [findings |-> DependencyRun(project.manifests), raises |-> FALSE])

\* VulnerabilityAuditor(config).run()
RunVulnerabilities ==
    \E tool \in ToolResults, osv \in OsvResults :
        RunAuditor(6, project.manifests # <<>>,
                   VulnerabilityRun(project.manifests, tool, osv))

\* plugins.py: a file of matt-stack-plugins/: its name, the class its module
\* holds, the audit_type of the class, what _load_plugin gives ("class",
\* "error" for an Exception of exec_module, "exit" for a SystemExit of
\* exec_module, "no class"), what run() returns and whether run() raises
Plugin(f, n, ty, ld, fds, r) ==
    [file |-> f, name |-> n, audit_type |-> ty, loads |-> ld, findings |-> fds,
     raises |-> r]

\* py_file.name.startswith("_")
StartsWithUnderscore(file) == file \in {"_private.py", "__init__.py"}

\* discover_plugins(project_path), plugins being the files of the plugin
\* directory in sorted order: the classes loaded, and whether an exception
\* leaves it (except Exception does not catch SystemExit)
discover_plugins(plugins) ==
    LET RECURSIVE Loop(_)
        Loop(i) ==
            IF i > Len(plugins) THEN [classes |-> <<>>, raises |-> FALSE]
            ELSE IF StartsWithUnderscore(plugins[i].file) THEN Loop(i + 1)
            ELSE IF plugins[i].loads = "exit"
            THEN [classes |-> <<>>, raises |-> TRUE]
            ELSE IF plugins[i].loads = "class"
            THEN [classes |-> <<plugins[i]>> \o Loop(i + 1).classes,
                  raises |-> Loop(i + 1).raises]
            ELSE Loop(i + 1)
    IN Loop(1)

\* run_audit: plugin_classes = discover_plugins(project_path)
DiscoverPlugins ==
    /\ apc = "auditors"
    /\ aidx > Len(AUDITOR_CLASSES)
    /\ LET loaded == discover_plugins(project.plugins)
       IN IF loaded.raises
          THEN Raised(<<"discover_plugins">>) /\ UNCHANGED plugin_classes
          ELSE /\ apc' = "plugins"
               /\ plugin_classes' = loaded.classes
               /\ UNCHANGED <<rfindings, auditors_run, results, raised>>
    /\ UNCHANGED <<AuditConfigVars, aidx, unfiltered, exit_code, printed, html_written,
                   todoVars, callVars, qualityVars, endpointVars>>

\* run_audit: one turn of the loop over plugin_classes
RunPlugin ==
    /\ apc = "plugins"
    /\ plugin_classes # <<>>
    /\ LET pl == Head(plugin_classes)
       IN /\ plugin_classes' = Tail(plugin_classes)
          /\ IF pl.raises
             THEN Raised(<<"plugin:", pl.name>>)
             ELSE /\ rfindings' = rfindings \o pl.findings
                  /\ auditors_run' = Append(auditors_run, <<"plugin:", pl.name>>)
                  /\ results' = Append(results, [auditor |-> <<"plugin:", pl.name>>,
                                                 findings |-> pl.findings])
                  /\ UNCHANGED <<apc, raised>>
    /\ UNCHANGED <<AuditConfigVars, aidx, unfiltered, exit_code, printed,
                   html_written, todoVars, callVars, qualityVars, endpointVars>>

\* run_audit: filter findings by minimum severity
FilterFindings ==
    /\ apc = "plugins"
    /\ plugin_classes = <<>>
    /\ apc' = "output"
    /\ unfiltered' = rfindings
    /\ rfindings' = IF min_severity # ""
                    THEN SelectSeq(rfindings,
                                   LAMBDA f : SeverityKept(f.severity, min_severity))
                    ELSE rfindings
    /\ UNCHANGED <<AuditConfigVars, aidx, plugin_classes, auditors_run, results,
                   raised, exit_code, printed, html_written,
                   todoVars, callVars, qualityVars, endpointVars>>

\* run_audit: print_json(report), or print_report(report) and the auto-fix
\* summary (fixes is total_fixes, -1 when fix is off)
OutputResults ==
    /\ apc = "output"
    /\ printed' = Append(printed,
                         [kind |-> IF json_output THEN "json" ELSE "report",
                          auditors_run |-> auditors_run,
                          findings |-> rfindings,
                          fixes |-> IF ~json_output /\ fix
                                    THEN (IF qpc = "done" THEN fix_count ELSE 0)
                                    ELSE -1])
    /\ apc' = IF json_output THEN "done" ELSE "todo"
    /\ UNCHANGED <<AuditConfigVars, aidx, plugin_classes, rfindings, unfiltered,
                   auditors_run, results, raised, exit_code, html_written,
                   todoVars, callVars, qualityVars, endpointVars>>

\* run_audit: if config.write_todo: write_todo(report, project_path)
WriteTodoFile ==
    /\ apc = "todo"
    /\ apc' = "html"
    /\ IF ~no_todo THEN write_todo(rfindings) ELSE UNCHANGED todoVars
    /\ UNCHANGED <<AuditConfigVars, AuditRunVars, exit_code, qualityVars, endpointVars,
                   callVars>>

\* run_audit: if html_output: html_path.write_text(html_content), which may
\* raise OSError; then the exit summary
WriteHtml ==
    /\ apc = "html"
    /\ \E write_ok \in BOOLEAN :
          IF html_output /\ ~write_ok
          THEN Raised(<<"html">>) /\ UNCHANGED html_written
          ELSE /\ html_written' = html_output
               /\ apc' = "done"
               /\ UNCHANGED <<rfindings, auditors_run, results, raised>>
    /\ UNCHANGED <<AuditConfigVars, aidx, plugin_classes, unfiltered, exit_code,
                   printed, todoVars, callVars, qualityVars, endpointVars>>

\* run_audit is not called
AuditIdle ==
    /\ path_is_dir = FALSE /\ audit_types = <<>> /\ min_severity = ""
    /\ no_todo = FALSE /\ json_output = FALSE /\ html_output = FALSE
    /\ project = <<>> /\ apc = "idle" /\ aidx = 1 /\ plugin_classes = <<>>
    /\ rfindings = <<>> /\ unfiltered = <<>> /\ auditors_run = <<>>
    /\ results = <<>> /\ raised = <<>> /\ exit_code = -1 /\ printed = <<>>
    /\ html_written = FALSE

\* no function is examined on its own
CallIdle == fn_args = <<>> /\ fn_result = <<>> /\ fn_pc = "idle"

----------------------------------------------------------------------------
(* One run of the code-quality auditor over a project of two source files *)

QualityLines == {"print('x')", "console.log('x')", "x = 1"}

InitQuality ==
    /\ TodoIdle
    /\ EndpointIdle
    /\ AuditIdle
    /\ CallIdle
    /\ \E other \in SourcePaths \ {"views.py"} :
          fs \in [{"views.py", other} -> SeqsUpTo(QualityLines, MaxLines)]
    /\ fs0 = fs
    /\ fix \in BOOLEAN
    /\ qpc = "new"
    /\ queue = <<>>
    /\ scanned = {}
    /\ fix_count = 0
    /\ qfindings = <<>>
    /\ written = <<>>

NextQuality ==
    \/ CollectFiles /\ UNCHANGED <<todoVars, callVars, endpointVars, auditVars>>
    \/ ScanFile /\ UNCHANGED <<todoVars, callVars, endpointVars, auditVars>>
    \/ QualityReturn /\ UNCHANGED <<todoVars, callVars, endpointVars, auditVars>>

SpecQuality == InitQuality /\ [][NextQuality]_vars

----------------------------------------------------------------------------
(* The task file under any sequence of write_todo calls *)

\* the findings a report is drawn from
TodoFindings ==
    { AuditFinding("quality", "error", "app.py", 10, <<"m1">>, <<"Fix it">>),
      AuditFinding("endpoints", "warning", ".", 0, <<"m2">>, <<>>),
      AuditFinding("quality", "info", "app.py", 10, <<"m1">>, <<"Fix it">>) }

\* what a user's task file is made of: text, newlines and stray markers
UserTokens == {<<"text">>, NL, AUDIT_START, AUDIT_END}

InitTodo ==
    /\ todoExists \in BOOLEAN
    /\ todo \in IF todoExists THEN SeqsUpTo(UserTokens, MaxFileLen) ELSE {<<>>}
    /\ report = <<>>
    /\ section = <<>>
    /\ ret = "None"
    /\ ncalls = 0
    /\ allActionable = TRUE
    /\ QualityIdle
    /\ EndpointIdle
    /\ AuditIdle
    /\ CallIdle

WriteTodo ==
    /\ \E findings \in SeqsUpTo(TodoFindings, MaxFindings) : write_todo(findings)
    /\ UNCHANGED <<qualityVars, endpointVars, auditVars, callVars>>

NextTodo == WriteTodo

SpecTodo == InitTodo /\ [][NextTodo]_vars

----------------------------------------------------------------------------
(* One run of the endpoint auditor over any list of parsed routes *)

RoutePool ==
    { Route("GET", "/users", "list_users", "api.py", 4, FALSE, FALSE),
      Route("GET", "/users", "users", "api.py", 9, FALSE, FALSE),
      Route("GET", "/users", "list_users", "views.py", 4, FALSE, FALSE),
      Route("POST", "/users", "create_user", "api.py", 12, FALSE, TRUE),
      Route("GET", "/items/{id}", "get_item", "api.py", 15, FALSE, FALSE),
      Route("GET", "/items/<id>", "item_page", "views.py", 11, FALSE, FALSE),
      Route("POST", "users/", "create_user", "views.py", 8, TRUE, FALSE),
      Route("GET", "/", "index", "views.py", 2, FALSE, FALSE) }

InitEndpoints ==
    /\ TodoIdle
    /\ QualityIdle
    /\ AuditIdle
    /\ CallIdle
    /\ routes \in SeqsUpTo(RoutePool, MaxRoutes)
    /\ route_files \in BOOLEAN
    /\ routes # <<>> => route_files
    /\ live \in BOOLEAN
    /\ epc = "new"
    /\ pidx = 1
    /\ efindings = <<>>
    /\ requests = <<>>

NextEndpoints ==
    \/ EndpointStatic /\ UNCHANGED <<todoVars, callVars, qualityVars, auditVars>>
    \/ ProbeRoute /\ UNCHANGED <<todoVars, callVars, qualityVars, auditVars>>
    \/ EndpointReturn /\ UNCHANGED <<todoVars, callVars, qualityVars, auditVars>>

SpecEndpoints == InitEndpoints /\ [][NextEndpoints]_vars

----------------------------------------------------------------------------
(* One call of run_audit *)

\* The projects of the model.  fs gives the lines of each source file as
\* the patterns of quality.py see them; the other fields give what the
\* parsers yield for the same files.

\* a directory without any recognized file
EmptyProject ==
    [fs |-> <<>>, routes |-> <<>>, py_schemas |-> <<>>, ts_interfaces |-> <<>>,
     zod_schemas |-> <<>>, suites |-> <<>>, manifests |-> <<>>, plugins |-> <<>>]

\* a backend with routes, a schema, a test and a manifest
BackendProject ==
    [fs |-> [f \in {"api.py", "schemas.py", "test_views.py"} |->
                CASE f = "api.py" -> <<"print('x')", "password123">>
                  [] f = "test_views.py" -> <<"print('x')">>
                  [] OTHER -> <<"x = 1">>],
     routes |-> << Route("POST", "/users", "create_user", "api.py", 4, FALSE, TRUE),
                   Route("GET", "/users", "list_users", "api.py", 9, FALSE, FALSE),
                   Route("POST", "/users", "add_user", "api.py", 12, TRUE, FALSE) >>,
     py_schemas |-> << PydanticSchema("Item", "schemas.py", 9, <<>>) >>,
     ts_interfaces |-> <<>>,
     zod_schemas |-> <<>>,
     suites |-> << TestSuite("test_views.py", "pytest",
                      << TestCase("test_user_create", "test_views.py", 3, "",
                                  {"user", "create"}) >>) >>,
     manifests |-> << DependencyManifest("pyproject.toml", "pyproject.toml",
                         << Dependency("Django", "", 5, FALSE),
                            Dependency("nose", "==1.3", 6, FALSE),
                            Dependency("mypy", ">=4.2", 9, TRUE) >>) >>,
     plugins |-> <<>>]

\* a backend schema with its frontend interface and validation schema
TypesProject ==
    [EmptyProject EXCEPT
        !.fs = [f \in {"schemas.py", "schemas.ts", "types.ts"} |-> <<"x = 1">>],
        !.py_schemas =
            << PydanticSchema("UserSchema", "schemas.py", 3,
                  << PydanticField(<<"a", "_", "b">>, "int", TRUE, [min_length |-> 2]),
                     PydanticField(<<"a">>, "str", FALSE, <<>>) >>) >>,
        !.ts_interfaces =
            << TSInterface("UserSchema", "types.ts", 1,
                  << TSField(<<"a", "B">>, "string", FALSE) >>) >>,
        !.zod_schemas =
            << ZodSchema("userSchema", "schemas.ts", 2,
                  << ZodField(<<"a", "B">>, "number", FALSE, <<>>) >>) >>]

\* a frontend with a manifest and two plugin files, one of which fails to load
FrontendProject ==
    [fs |-> [f \in {"app.tsx", "matt-stack-plugins/check.py"} |->
                IF f = "app.tsx" THEN <<"console.log('x')", "x = 1">>
                ELSE <<"x = 1">>],
     routes |-> <<>>, py_schemas |-> <<>>, ts_interfaces |-> <<>>,
     zod_schemas |-> <<>>, suites |-> <<>>,
     manifests |-> << DependencyManifest("package.json", "package.json",
                         << Dependency("typescript", "^5.0.0", 4, TRUE),
                            Dependency("moment", "*", 5, FALSE) >>) >>,
     plugins |-> << Plugin("check.py", "CustomAuditor", "quality", "class",
                           << AuditFinding("quality", "info", "test.py", 1,
                                           <<"Plugin finding">>, <<>>),
                              AuditFinding("quality", "error", "test.py", 2,
                                           <<"Plugin error">>, <<>>) >>, FALSE) >>]

\* the empty directory with a plugin whose run() raises
RaisingPluginProject ==
    [EmptyProject EXCEPT
        !.fs = [f \in {"matt-stack-plugins/check.py"} |-> <<"x = 1">>],
        !.plugins = << Plugin("check.py", "RaisingAuditor", "quality", "class", <<>>,
                              TRUE) >>]

AuditProjects ==
    <<EmptyProject, BackendProject, TypesProject, FrontendProject,
      RaisingPluginProject>>

\* the values of --type and --severity of the model
AuditTypeArgs ==
    { <<>>, <<"quality">>, <<"endpoints", "types">>,
      <<"tests", "dependencies", "vulnerabilities">>, <<"quality", "bogus">> }
SeverityArgs == {"", "info", "warning", "error", "critical"}

\* the values of --no-todo, --json and --html of the model
OutputArgs ==
    { [no_todo |-> FALSE, json_output |-> FALSE, html_output |-> FALSE],
      [no_todo |-> FALSE, json_output |-> FALSE, html_output |-> TRUE],
      [no_todo |-> TRUE, json_output |-> FALSE, html_output |-> FALSE],
      [no_todo |-> FALSE, json_output |-> TRUE, html_output |-> TRUE] }

InitAudit ==
    /\ \E i \in 1..Len(AuditProjects) :
          LET pr == AuditProjects[i]
          IN /\ fs = pr.fs
             /\ routes = pr.routes
             /\ route_files = (\E f \in DOMAIN pr.fs : IsRouteFile(f))
             /\ project = [py_schemas |-> pr.py_schemas,
                           ts_interfaces |-> pr.ts_interfaces,
                           zod_schemas |-> pr.zod_schemas, suites |-> pr.suites,
                           manifests |-> pr.manifests, plugins |-> pr.plugins]
    /\ fs0 = fs
    /\ fix \in BOOLEAN
    /\ qpc = "idle" /\ queue = <<>> /\ scanned = {} /\ fix_count = 0
    /\ qfindings = <<>> /\ written = <<>>
    /\ live \in BOOLEAN
    /\ epc = "idle" /\ pidx = 1 /\ efindings = <<>> /\ requests = <<>>
    /\ TodoIdle
    /\ CallIdle
    /\ path_is_dir \in BOOLEAN
    /\ audit_types \in AuditTypeArgs
    /\ min_severity \in SeverityArgs
    /\ \E o \in OutputArgs : /\ no_todo = o.no_todo
                             /\ json_output = o.json_output
                             /\ html_output = o.html_output
    /\ apc = "path" /\ aidx = 1 /\ plugin_classes = <<>>
    /\ rfindings = <<>> /\ unfiltered = <<>> /\ auditors_run = <<>>
    /\ results = <<>> /\ raised = <<>> /\ exit_code = -1 /\ printed = <<>>
    /\ html_written = FALSE

NextAudit ==
    \/ ValidatePath
    \/ ParseTypes
    \/ ParseSeverity
    \/ SkipAuditor
    \/ RunTypeSafety
    \/ StartQuality
    \/ CollectFiles /\ UNCHANGED <<todoVars, callVars, endpointVars, auditVars>>
    \/ ScanFile /\ UNCHANGED <<todoVars, callVars, endpointVars, auditVars>>
    \/ QualityReturn /\ UNCHANGED <<todoVars, callVars, endpointVars, auditVars>>
    \/ FinishQuality
    \/ StartEndpoints
    \/ EndpointStatic /\ UNCHANGED <<todoVars, callVars, qualityVars, auditVars>>
    \/ ProbeRoute /\ UNCHANGED <<todoVars, callVars, qualityVars, auditVars>>
    \/ EndpointReturn /\ UNCHANGED <<todoVars, callVars, qualityVars, auditVars>>
    \/ FinishEndpoints
    \/ RunCoverage
    \/ RunDependencies
    \/ RunVulnerabilities
    \/ DiscoverPlugins
    \/ RunPlugin
    \/ FilterFindings
    \/ OutputResults
    \/ WriteTodoFile
    \/ WriteHtml

SpecAudit == InitAudit /\ [][NextAudit]_vars

----------------------------------------------------------------------------
(* Claims about write_todo *)

\* number of occurrences of token x in content
Count(content, x) == Cardinality({i \in 1..Len(content) : content[i] = x})

\* content[i..j] is an occurrence of sub in content
OccursAt(content, sub, i) ==
    /\ i + Len(sub) - 1 <= Len(content)
    /\ SubSeq(content, i, i + Len(sub) - 1) = sub

IsWhitespace(content) == \A i \in 1..Len(content) : content[i] = NL

\* the checkbox line the section holds for finding f
EntryOf(f) ==
    IF f.line # 0
    THEN <<"- [", IF f.severity = "error" THEN "x" ELSE " ", Upper(f.severity),
           f.file, f.line, f.message>>
    ELSE <<"- [", IF f.severity = "error" THEN "x" ELSE " ", Upper(f.severity),
           f.file, f.message>>

IsEntry(tok) == tok[1] = "- ["

\* C1: after any sequence of write_todo calls, each carrying an ERROR or
\* WARNING finding, the task file holds exactly one audit:start marker and
\* exactly one audit:end marker, and the text from the one to the other is
\* the section built by the last call.
C1_OneSectionOfLastCall ==
    (ncalls >= 1 /\ allActionable) =>
        /\ Count(todo, AUDIT_START) = 1
        /\ Count(todo, AUDIT_END) = 1
        /\ \E i \in 1..Len(todo) :
              /\ todo[i] = AUDIT_START
              /\ OccursAt(todo, section, i)

\* C2: a call that writes changes only the text from the start marker
\* through the end marker of a delimited section of the file (a start marker
\* with an end marker after it), and appends the section after the kept
\* content of a file without one.
C2_OnlySectionReplaced ==
    [][ (ncalls' # ncalls /\ ret' = "todo_path" /\ todoExists) =>
          IF \E i, j \in 1..Len(todo) :
                 i < j /\ todo[i] = AUDIT_START /\ todo[j] = AUDIT_END
          THEN \E i, j \in 1..Len(todo) :
                 /\ i < j /\ todo[i] = AUDIT_START /\ todo[j] = AUDIT_END
                 /\ todo' = SubSeq(todo, 1, i - 1) \o section'
                            \o SubSeq(todo, j + 1, Len(todo))
          ELSE \E k \in 0..Len(todo), n \in 0..Len(todo') :
                 /\ IsWhitespace(SubSeq(todo, k + 1, Len(todo)))
                 /\ SubSeq(todo', 1, k) = SubSeq(todo, 1, k)
                 /\ k <= n
                 /\ IsWhitespace(SubSeq(todo', k + 1, n))
                 /\ OccursAt(todo', section', n + 1)
                 /\ IsWhitespace(SubSeq(todo', n + Len(section') + 1, Len(todo')))
      ]_vars

\* C3: the section a call writes holds one entry for each ERROR and each
\* WARNING finding of the report and none for an INFO finding; a call whose
\* report has no ERROR or WARNING finding returns None and leaves the task
\* file as it was (absent if it was absent).
C3_OnlyActionablePersisted ==
    [][ ncalls' # ncalls =>
          LET acts == {i \in 1..Len(report') :
                          report'[i].severity \in {"error", "warning"}}
          IN IF acts = {}
             THEN ret' = "None" /\ todoExists' = todoExists /\ todo' = todo
             ELSE /\ ret' = "todo_path"
                  /\ todoExists'
                  /\ \E i \in 1..Len(todo') : OccursAt(todo', section', i)
                  /\ Cardinality({k \in 1..Len(section') : IsEntry(section'[k])})
                       = Cardinality(acts)
                  /\ \A i \in 1..Len(report') :
                        Count(section', EntryOf(report'[i])) =
                            IF i \in acts
                            THEN Cardinality({j \in acts :
                                     EntryOf(report'[j]) = EntryOf(report'[i])})
                            ELSE 0
      ]_vars

\* a call wrote the section of a report that mixes an INFO finding with an
\* ERROR finding
C3_Witness ==
    /\ ncalls >= 1
    /\ ret = "todo_path"
    /\ \E i, j \in 1..Len(report) :
          report[i].severity = "info" /\ report[j].severity = "error"

----------------------------------------------------------------------------
(* Claims about the code-quality auditor *)

\* the line matches the debug-statement pattern of the file's language family
IsDebugLine(path, line) ==
    \/ Suffix(path) \in PY_EXTS /\ MatchesPyDebug(line)
    \/ Suffix(path) \in JS_EXTS /\ MatchesJsDebug(line)

\* the number of debug-statement lines of a text
DebugLines(path, text) ==
    Cardinality({i \in 1..Len(text) : IsDebugLine(path, text[i])})

RECURSIVE TotalDebugLines(_, _)
TotalDebugLines(paths, files) ==
    IF paths = {} THEN 0
    ELSE LET p == CHOOSE q \in paths : TRUE
         IN DebugLines(p, files[p]) + TotalDebugLines(paths \ {p}, files)

\* C4: after one run with the auto-fix flag set, no scanned non-test source
\* file holds a line matching the debug pattern of its family, and fix_count
\* is the number of such lines the scanned non-test files held before.
C4_AllDebugRemoved ==
    (qpc = "done" /\ fix) =>
        LET nontest == {p \in scanned : ~StemNamesTest(p)}
        IN /\ \A p \in nontest : DebugLines(p, fs[p]) = 0
           /\ fix_count = TotalDebugLines(nontest, fs0)

----------------------------------------------------------------------------
(* Claims about the endpoint auditor *)

\* the (method, path) keys of the model
RouteKeys == {"GET", "POST"} \X RoutePaths

\* the 'Duplicate route' findings for a key
DuplicateRouteFindings(findings, key) ==
    SelectSeq(findings, LAMBDA f : /\ f.message[1] = "Duplicate route: "
                                   /\ f.message[2] = key[1]
                                   /\ f.message[3] = key[2])

\* C7: for every list of parsed routes, once the static checks have run the
\* findings hold exactly one 'Duplicate route' ERROR for each (method, path)
\* key that two or more routes have and none for a key of one route or none,
\* and the message of that finding lists the file:line location of every
\* route with the key, one location per route.
C7_OneDuplicateFindingPerKey ==
    (epc \in {"probe", "done"} /\ routes # <<>>) =>
        \A key \in RouteKeys :
            LET n == Cardinality(KeyIndices(routes, key))
                ds == DuplicateRouteFindings(efindings, key)
            IN IF n < 2
               THEN ds = <<>>
               ELSE /\ Len(ds) = 1
                    /\ ds[1].severity = "error"
                    /\ ds[1].category = "endpoints"
                    /\ Len(ds[1].message[5]) = n
                    /\ \A i \in KeyIndices(routes, key) :
                          \E k \in 1..n :
                             ds[1].message[5][k] = <<routes[i].file, routes[i].line>>

\* a run over three routes: two GET /users in different files and a route
\* whose key occurs once
C7_Witness ==
    /\ epc = "done"
    /\ Len(routes) = 3
    /\ \E i, j \in 1..3 :
          /\ i # j
          /\ <<routes[i].method, routes[i].path>> = <<"GET", "/users">>
          /\ <<routes[j].method, routes[j].path>> = <<"GET", "/users">>
          /\ routes[i].file # routes[j].file
    /\ \E i \in 1..3 : routes[i].path = "/items/{id}"
    /\ Len(DuplicateRouteFindings(efindings, <<"GET", "/users">>)) = 1

----------------------------------------------------------------------------
(* Claims about run_audit *)

\* the quality auditor reported a debug statement in the file
DebugMatched(p) ==
    \E i \in 1..Len(qfindings) : /\ qfindings[i].file = p
                                 /\ qfindings[i].category = "quality"
                                 /\ qfindings[i].message[1] = "Debug statement: "

\* C5: no auditor writes a source file of the audited project unless the
\* auto-fix flag is set; with the flag set the only source files written are
\* written by the code-quality auditor's scan, and each of them is a file in
\* which that auditor matched at least one debug statement.
C5_OnlyAutoFixWrites ==
    /\ [](/\ ~fix => (written = <<>> /\ fs = fs0)
          /\ \A p \in DOMAIN fs0 :
                fs[p] # fs0[p] => \E k \in 1..Len(written) : written[k] = p
          /\ \A k \in 1..Len(written) :
                /\ written[k] \in DOMAIN fs0
                /\ DebugMatched(written[k])
                /\ DebugLines(written[k], fs0[written[k]]) >= 1)
    /\ [][(fs' # fs \/ written' # written) =>
             (fix /\ qpc = "scan" /\ apc = "auditors" /\ AUDITOR_CLASSES[aidx] = "quality")]_vars

\* a finished run of all six auditors with the auto-fix flag set that wrote
\* one file and left a file without debug statements as it was
C5_Witness ==
    /\ apc = "done"
    /\ fix
    /\ Len(results) = 6
    /\ written = <<"api.py">>
    /\ fs["api.py"] # fs0["api.py"]
    /\ "schemas.py" \in scanned
    /\ fs["schemas.py"] = fs0["schemas.py"]

\* severity s is at least threshold t in the order INFO < WARNING < ERROR
AtLeast(s, t) ==
    \/ t = "info" /\ s \in {"info", "warning", "error"}
    \/ t = "warning" /\ s \in {"warning", "error"}
    \/ t = "error" /\ s = "error"

\* C6: after the severity filter with threshold min_severity, the kept
\* findings are exactly the findings of the merged list whose severity is at
\* least the threshold, in the same relative order; with no threshold the
\* merged list is unchanged.
C6_FilterKeepsAtLeastThreshold ==
    apc \in {"output", "todo", "html", "done"} =>
        IF min_severity = ""
        THEN rfindings = unfiltered
        ELSE LET keep == {i \in 1..Len(unfiltered) :
                             AtLeast(unfiltered[i].severity, min_severity)}
             IN /\ Len(rfindings) = Cardinality(keep)
                /\ \A i \in keep :
                      rfindings[Cardinality({j \in keep : j <= i})] = unfiltered[i]

\* a run with threshold WARNING whose merged list held findings of all three
\* severities, at least two of them kept
C6_Witness ==
    /\ apc = "done"
    /\ min_severity = "warning"
    /\ \A s \in {"info", "warning", "error"} :
          \E i \in 1..Len(unfiltered) : unfiltered[i].severity = s
    /\ Len(rfindings) >= 2
    /\ Len(rfindings) < Len(unfiltered)
    /\ \E i \in 1..Len(unfiltered) :
          /\ unfiltered[i].severity = "warning"
          /\ \E k \in 1..Len(rfindings) : rfindings[k] = unfiltered[i]

\* the names of the built-in auditors
BuiltinAuditors ==
    {"types", "quality", "endpoints", "tests", "dependencies", "vulnerabilities"}

\* the project holds no file any auditor recognises
NoRecognizedFiles ==
    /\ DOMAIN fs0 = {}
    /\ ~route_files
    /\ routes = <<>>
    /\ project.py_schemas = <<>>
    /\ project.ts_interfaces = <<>>
    /\ project.zod_schemas = <<>>
    /\ project.suites = <<>>
    /\ project.manifests = <<>>
    /\ project.plugins = <<>>

\* C8: on a project with no recognised source files, manifests or routes
\* every auditor returns normally, and every finding it returns has severity
\* INFO or WARNING.
C8_EmptyProjectOnlyInfoWarning ==
    NoRecognizedFiles =>
        /\ \A a \in BuiltinAuditors : raised # <<a>>
        /\ \A k \in 1..Len(results) :
              \A i \in 1..Len(results[k].findings) :
                 results[k].findings[i].severity \in {"info", "warning"}
        /\ apc \in {"plugins", "output", "todo", "html", "done"} =>
              \A a \in BuiltinAuditors :
                 should_run(a) => \E k \in 1..Len(results) : results[k].auditor = <<a>>

\* a finished run of all six auditors on the empty project, three of which
\* returned a finding
C8_Witness ==
    /\ NoRecognizedFiles
    /\ apc = "done"
    /\ audit_types = <<>>
    /\ Len(results) = 6
    /\ Len(unfiltered) = 3

\* the auditor has no file of the kind it reads
InputAbsent(a) ==
    \/ a = "dependencies" /\ project.manifests = <<>>
    \/ a = "endpoints" /\ ~route_files /\ routes = <<>>
    \/ a = "tests" /\ project.suites = <<>>
    \/ a = "types" /\ \A f \in DOMAIN fs0 :
                         ~(IsSchemaFile(f) \/ IsTypesFile(f) \/ IsZodFile(f))

\* the findings the named auditor returned are one finding of severity INFO
\* or WARNING
OneMildFinding(findings) ==
    /\ Len(findings) = 1
    /\ findings[1].severity \in {"info", "warning"}

InvalidArguments ==
    \/ ~path_is_dir
    \/ \E i \in 1..Len(audit_types) : audit_types[i] \notin BuiltinAuditors
    \/ min_severity \notin {"", "info", "warning", "error"}

\* C10: when the path is not a directory, an audit type is unknown or the
\* severity is unknown, run_audit ends with exit code 1, and no auditor or
\* plugin has run and no file has been written before it does; exit code 1
\* comes from nothing else.
C10_InvalidArgumentsExitFirst ==
    /\ InvalidArguments =>
          /\ apc \in {"path", "types", "severity", "exit"}
          /\ apc = "exit" => exit_code = 1
          /\ results = <<>> /\ auditors_run = <<>> /\ raised = <<>>
          /\ qpc = "idle" /\ epc = "idle" /\ requests = <<>>
          /\ plugin_classes = <<>>
          /\ written = <<>> /\ fs = fs0
          /\ ~todoExists /\ ncalls = 0 /\ ~html_written
          /\ printed = <<>>
    /\ (apc = "exit" \/ exit_code = 1) => (InvalidArguments /\ apc = "exit" /\ exit_code = 1)

\* run_audit has ended with exit code 1 on a directory with known audit
\* types and the severity "critical"
C10_Witness ==
    /\ apc = "exit"
    /\ exit_code = 1
    /\ path_is_dir
    /\ \A i \in 1..Len(audit_types) : audit_types[i] \in BuiltinAuditors
    /\ min_severity = "critical"

----------------------------------------------------------------------------
(* Claims about the live probe *)

\* the request ended in a connection failure
ConnectionFailed(req) == req.outcome \in {"URLError", "TimeoutError", "OSError"}

\* the 'could not reach the server' findings
UnreachableFindings(findings) ==
    SelectSeq(findings, LAMBDA f : f.message[1] = "Could not reach ")

HasPathParameter(path) == path \in {"/items/{id}", "/items/<id>"}

\* C12: the endpoint auditor issues a request only when the live flag is set,
\* every request is a GET, and the requests are made for routes whose method
\* is GET and whose path holds no path parameter, at most one for each such
\* route and in the routes' order; no other route is requested.
C12_ProbesOnlyPlainGetRoutes ==
    LET eligible == {i \in 1..Len(routes) :
                        routes[i].method = "GET" /\ ~HasPathParameter(routes[i].path)}
    IN /\ requests # <<>> => live
       /\ Len(requests) <= Cardinality(eligible)
       /\ \A k \in 1..Len(requests) :
             /\ requests[k].method = "GET"
             /\ \E i \in eligible :
                   /\ Cardinality({j \in eligible : j <= i}) = k
                   /\ requests[k].url = <<"http://localhost:8000", routes[i].path>>

\* a finished live run over a POST route, a GET route parameterized with "<"
\* and a plain GET route, which is the one request made
C12_Witness ==
    /\ epc = "done"
    /\ live
    /\ \E i \in 1..Len(routes) : routes[i].method = "POST"
    /\ \E i \in 1..Len(routes) : routes[i].path = "/items/<id>"
    /\ \E i \in 1..Len(routes) : routes[i].method = "GET" /\ routes[i].path = "/"
    /\ Len(requests) = 1
    /\ requests[1].url[2] = "/"

----------------------------------------------------------------------------
(* One run of the vulnerability auditor over the manifests of a project *)

\* the manifests find_dependency_files may yield, as the parsers read them
VulnManifests ==
    { DependencyManifest("pyproject.toml", "pyproject.toml",
                         << Dependency("Django", "", 3, FALSE),
                            Dependency("nose", "==1.3", 4, FALSE) >>),
      DependencyManifest("backend/pyproject.toml", "pyproject.toml", <<>>),
      DependencyManifest("package.json", "package.json",
                         << Dependency("typescript", "^5.0.0", 3, TRUE) >>),
      DependencyManifest("frontend/package.json", "package.json",
                         << Dependency("typescript", "~5.1.0", 3, TRUE),
                            Dependency("moment", "*", 4, FALSE) >>) }

InitVulns ==
    /\ TodoIdle
    /\ QualityIdle
    /\ EndpointIdle
    /\ AuditIdle
    /\ fn_args \in {ms \in SeqsUpTo(VulnManifests, 2) :
                       \A i, j \in 1..Len(ms) : ms[i].file = ms[j].file => i = j}
    /\ fn_result = [idx |-> 1, findings |-> <<>>, calls |-> <<>>]
    /\ fn_pc = "vulns"

\* VulnerabilityAuditor.run: one turn of the loop over dep_files
CheckManifest ==
    /\ fn_pc = "vulns"
    /\ fn_result.idx <= Len(fn_args)
    /\ LET manifest == fn_args[fn_result.idx]
       IN \E tool \in ToolResults :
          \E osv \in [1..Len(manifest.dependencies) -> OsvResults] :
             LET r == CheckVulns(manifest, tool, osv)
             IN /\ fn_result' = [idx |-> fn_result.idx + 1,
                                 findings |-> fn_result.findings \o r.findings,
                                 calls |-> fn_result.calls \o r.calls]
                /\ fn_pc' = IF r.raises THEN "raised" ELSE "vulns"
    /\ UNCHANGED <<fn_args, todoVars, qualityVars, endpointVars, auditVars>>

\* VulnerabilityAuditor.run: return self.findings
VulnReturn ==
    /\ fn_pc = "vulns"
    /\ fn_result.idx > Len(fn_args)
    /\ fn_pc' = "returned"
    /\ UNCHANGED <<fn_args, fn_result, todoVars, qualityVars, endpointVars, auditVars>>

NextVulns ==
    \/ CheckManifest
    \/ VulnReturn

SpecVulns == InitVulns /\ [][NextVulns]_vars

----------------------------------------------------------------------------
(* Claims about the vulnerability auditor *)

\* the external calls made for the manifest, in order
CallsFor(manifest) ==
    SelectSeq(fn_result.calls, LAMBDA c : c.manifest = manifest.file)

\* the scanner was unavailable or timed out
ScannerUnavailable(call) == ~call.outcome.ran

\* the scanner ran successfully: it ended with a JSON report (and, for the
\* backend scanner, a return code of 0 or 1)
ScannerSucceeded(manifest, call) ==
    /\ call.outcome.ran
    /\ call.outcome.stdout \in {"clean", "vulnerable"}
    /\ manifest.kind = "pyproject.toml" => call.outcome.returncode \in {0, 1}

\* C13: for each manifest with at least one dependency the scanner is
\* invoked before any database query; if the scanner is unavailable or times
\* out, every dependency of the manifest is then passed to the database
\* query; if the scanner ran successfully, no database query is made for the
\* manifest.
C13_ScannerThenDatabase ==
    fn_pc \in {"vulns", "returned", "raised"} =>
        \A i \in 1..(fn_result.idx - 1) :
            LET manifest == fn_args[i]
                cs == CallsFor(manifest)
                queried == SelectSeq(cs, LAMBDA c : c.op = "_check_osv")
            IN manifest.dependencies # <<>> =>
                  /\ cs # <<>>
                  /\ cs[1].op = "subprocess.run"
                  /\ \A k \in 2..Len(cs) : cs[k].op # "subprocess.run"
                  /\ ScannerUnavailable(cs[1]) =>
                        /\ Len(queried) = Len(manifest.dependencies)
                        /\ \A k \in 1..Len(queried) :
                              queried[k].dep = manifest.dependencies[k].name
                  /\ ScannerSucceeded(manifest, cs[1]) => Len(cs) = 1

\* C14: VulnerabilityAuditor.run() returns normally for every outcome of its
\* external calls.
C14_VulnerabilityRunNeverRaises ==
    fn_pc # "raised"

----------------------------------------------------------------------------
(* One call of discover_plugins on a plugin directory *)

\* the files a plugin directory may hold, in sorted order
PluginFiles ==
    << Plugin("__init__.py", "", "", "no class", <<>>, FALSE),
       Plugin("_private.py", "CustomAuditor", "quality", "class", <<>>, FALSE),
       Plugin("alpha.py", "AlphaAuditor", "quality", "class", <<>>, FALSE),
       Plugin("beta.py", "BetaAuditor", "tests", "class", <<>>, FALSE),
       Plugin("broken.py", "", "", "error", <<>>, FALSE),
       Plugin("exits.py", "", "", "exit", <<>>, FALSE),
       Plugin("no_auditor.py", "", "", "no class", <<>>, FALSE) >>

InitPlugins ==
    /\ TodoIdle
    /\ QualityIdle
    /\ EndpointIdle
    /\ AuditIdle
    /\ \E present \in SUBSET (1..Len(PluginFiles)) :
          fn_args = SelectSeq(PluginFiles,
                              LAMBDA pl : \E i \in present : PluginFiles[i] = pl)
    /\ fn_result = <<>>
    /\ fn_pc = "discover_plugins"

\* discover_plugins(project_path) returns or raises
DiscoverCall ==
    /\ fn_pc = "discover_plugins"
    /\ LET loaded == discover_plugins(fn_args)
       IN /\ fn_result' = loaded.classes
          /\ fn_pc' = IF loaded.raises THEN "raised" ELSE "returned"
    /\ UNCHANGED <<fn_args, todoVars, qualityVars, endpointVars, auditVars>>

NextPlugins ==
    \/ DiscoverCall

SpecPlugins == InitPlugins /\ [][NextPlugins]_vars

----------------------------------------------------------------------------
(* Claims about discover_plugins *)

\* the file is one discover_plugins is to load a class from
LoadsAuditorClass(pl) ==
    /\ pl.file \notin {"_private.py", "__init__.py"}
    /\ pl.loads = "class"

\* C15: for every set of files in the plugin directory discover_plugins
\* raises nothing and returns exactly one auditor class for each file that is
\* not underscore-prefixed, loads without error and defines an auditor
\* subclass; every other file contributes nothing and does not keep the
\* other files from being loaded.
C15_DiscoverPluginsIsolatesFiles ==
    fn_pc \in {"returned", "raised"} =>
        /\ fn_pc = "returned"
        /\ fn_result = SelectSeq(fn_args, LoadsAuditorClass)

----------------------------------------------------------------------------
(* One run of the dependency auditor over the manifests of a project *)

MaxDeps == 2

\* the entries a pyproject.toml may list: name, constraint, dev
PythonEntries ==
    { <<"Django", "", FALSE>>, <<"Django", ">=4.2", TRUE>>, <<"nose", "==1.3", FALSE>> }

\* the entries a package.json may list (typescript being a key of
\* "dependencies" and of "devDependencies")
NodeEntries ==
    { <<"typescript", "^5.0.0", TRUE>>, <<"typescript", "~5.1.0", FALSE>>,
      <<"moment", "*", FALSE>>, <<"react", "latest", FALSE>>, <<"lodash", "", TRUE>> }

\* a JSON object holds a key once, and parse_package_json reads
\* "dependencies" before "devDependencies"
NodeEntryLists(entries) ==
    {es \in SeqsUpTo(entries, MaxDeps) :
        \A i, j \in 1..Len(es) :
            i < j => /\ <<es[i][1], es[i][3]>> # <<es[j][1], es[j][3]>>
                     /\ ~(es[i][3] /\ ~es[j][3])}

\* parse_pyproject_toml: each entry has the line it stands on
PythonManifest(file, es) ==
    DependencyManifest(file, "pyproject.toml",
        [i \in 1..Len(es) |-> Dependency(es[i][1], es[i][2], i + 2, es[i][3])])

\* parse_package_json: _find_line gives an entry the first line that holds
\* its name
NodeManifest(file, es) ==
    DependencyManifest(file, "package.json",
        [i \in 1..Len(es) |->
            Dependency(es[i][1], es[i][2],
                       2 + (CHOOSE k \in 1..i : /\ es[k][1] = es[i][1]
                                                /\ \A j \in 1..(k - 1) : es[j][1] # es[i][1]),
                       es[i][3])])

InitDeps ==
    /\ TodoIdle
    /\ QualityIdle
    /\ EndpointIdle
    /\ AuditIdle
    /\ \E py \in {<<>>} \cup {<<PythonManifest("pyproject.toml", es)>> :
                                  es \in SeqsUpTo(PythonEntries, MaxDeps)},
          js \in {<<>>} \cup {<<NodeManifest("package.json", es)>> :
                                  es \in NodeEntryLists(NodeEntries)},
          fe \in {<<>>} \cup {<<NodeManifest("frontend/package.json", es)>> :
                                  es \in NodeEntryLists({<<"typescript", "^5.0.0", TRUE>>,
                                                         <<"typescript", "~5.1.0", FALSE>>})} :
          fn_args = py \o js \o fe
    /\ fn_result = <<>>
    /\ fn_pc = "DependencyAuditor.run"

\* DependencyAuditor(config).run() returns
DependencyCall ==
    /\ fn_pc = "DependencyAuditor.run"
    /\ fn_result' = DependencyRun(fn_args)
    /\ fn_pc' = "returned"
    /\ UNCHANGED <<fn_args, todoVars, qualityVars, endpointVars, auditVars>>

NextDeps ==
    \/ DependencyCall

SpecDeps == InitDeps /\ [][NextDeps]_vars

----------------------------------------------------------------------------
(* Claims about the dependency auditor *)

\* the 'Unpinned dependency' findings for the package in the manifest
UnpinnedFindings(findings, manifest, name) ==
    SelectSeq(findings, LAMBDA f : /\ f.category = "dependencies"
                                   /\ f.file = manifest.file
                                   /\ f.message[1] = "Unpinned dependency: "
                                   /\ f.message[2] = name)

\* the entries of the manifest for the package that satisfy Test
EntriesOf(manifest, name, Test(_)) ==
    {i \in 1..Len(manifest.dependencies) :
        /\ manifest.dependencies[i].name = name
        /\ Test(manifest.dependencies[i])}

\* the package names of the model
PackageNames == {"Django", "nose", "typescript", "moment", "react", "lodash"}

\* C16 as stated: for every entry of every manifest the dependency auditor
\* emits exactly one 'Unpinned dependency' WARNING naming the package when
\* the entry's constraint string is empty, and none when it is not empty.
C16_UnpinnedIffEmptyConstraint ==
    fn_pc = "returned" =>
        \A m \in 1..Len(fn_args) : \A name \in PackageNames :
            LET unpinned == UnpinnedFindings(fn_result, fn_args[m], name)
            IN /\ Len(unpinned) =
                    Cardinality(EntriesOf(fn_args[m], name,
                                          LAMBDA d : d.version_constraint = ""))
               /\ \A k \in 1..Len(unpinned) : unpinned[k].severity = "warning"

\* the entry counts as unpinned: its constraint string is empty or, in a
\* frontend manifest, "*" or "latest"
CountsAsUnpinned(kind, d) ==
    \/ d.version_constraint = ""
    \/ kind = "package.json" /\ d.version_constraint \in {"*", "latest"}

\* C16: for every entry of every manifest the dependency auditor emits
\* exactly one 'Unpinned dependency' WARNING naming the package when the
\* entry's constraint string is empty or, in a frontend manifest, "*" or
\* "latest", and none otherwise.
C16_UnpinnedIffNoConstraint ==
    fn_pc = "returned" =>
        \A m \in 1..Len(fn_args) : \A name \in PackageNames :
            LET unpinned == UnpinnedFindings(fn_result, fn_args[m], name)
            IN /\ Len(unpinned) =
                    Cardinality(EntriesOf(fn_args[m], name,
                                          LAMBDA d : CountsAsUnpinned(fn_args[m].kind, d)))
               /\ \A k \in 1..Len(unpinned) : unpinned[k].severity = "warning"

\* a run over a pyproject.toml with an unpinned and a pinned entry and a
\* package.json with a "*" entry and an entry without a version
C16_Witness ==
    /\ fn_pc = "returned"
    /\ Len(fn_args) = 2
    /\ fn_args[1].kind = "pyproject.toml"
    /\ \E i, j \in 1..Len(fn_args[1].dependencies) :
          /\ fn_args[1].dependencies[i].version_constraint = ""
          /\ fn_args[1].dependencies[j].version_constraint = "==1.3"
    /\ \E i, j \in 1..Len(fn_args[2].dependencies) :
          /\ fn_args[2].dependencies[i].version_constraint = "*"
          /\ fn_args[2].dependencies[j].version_constraint = ""
    /\ Len(UnpinnedFindings(fn_result, fn_args[1], "Django")) = 1
    /\ Len(UnpinnedFindings(fn_result, fn_args[1], "nose")) = 0
    /\ Len(UnpinnedFindings(fn_result, fn_args[2], "moment")) = 1
    /\ Len(UnpinnedFindings(fn_result, fn_args[2], "lodash")) = 1

\* the version-conflict findings for the shared tool dependency
ConflictFindings(findings) ==
    SelectSeq(findings, LAMBDA f : f.message[1] = "TypeScript version conflict: ")

\* C17: the number of version-conflict WARNINGs for the shared tool
\* dependency equals the number of manifests that declare it when those
\* manifests declare at least two different version strings, and is zero
\* when all declared version strings are identical or fewer than two
\* manifests declare it.
C17_OneConflictPerManifest ==
    fn_pc = "returned" =>
        LET declaring == {m \in 1..Len(fn_args) :
                             \E i \in 1..Len(fn_args[m].dependencies) :
                                fn_args[m].dependencies[i].name = "typescript"}
            declared == {fn_args[m].dependencies[i].version_constraint :
                            <<m, i>> \in {<<m, i>> \in (1..Len(fn_args)) \X (1..MaxDeps + 1) :
                                            /\ i <= Len(fn_args[m].dependencies)
                                            /\ fn_args[m].dependencies[i].name = "typescript"}}
            conflicts == ConflictFindings(fn_result)
        IN /\ \A k \in 1..Len(conflicts) : conflicts[k].severity = "warning"
           /\ Len(conflicts) = IF Cardinality(declaring) >= 2 /\ Cardinality(declared) >= 2
                               THEN Cardinality(declaring)
                               ELSE 0

----------------------------------------------------------------------------
(* One run of the type-safety auditor on a backend schema and the frontend
   interface of its name *)

MaxFields == 2

\* the fields a backend schema may hold: age, a_b
BackendFields ==
    { PydanticField(n, ty, FALSE, <<>>) :
        n \in {<<"a">>, <<"a", "_", "b">>}, ty \in {"int", "str", "Money"} }

\* the fields a frontend interface may hold: age, aB, a_b
FrontendFields ==
    { TSField(n, ty, FALSE) :
        n \in {<<"a">>, <<"a", "B">>, <<"a", "_", "b">>},
        ty \in {"string", "number", "Array<string>"} }

InitTypes ==
    /\ TodoIdle
    /\ QualityIdle
    /\ EndpointIdle
    /\ AuditIdle
    /\ \E pfs \in SeqsUpTo(BackendFields, MaxFields),
          tfs \in {fds \in SeqsUpTo(FrontendFields, MaxFields) :
                      \A i, j \in 1..Len(fds) : fds[i].name = fds[j].name => i = j},
          declared \in BOOLEAN :
          fn_args = [py_schemas |-> << PydanticSchema("UserSchema", "schemas.py", 3, pfs) >>,
                     ts_interfaces |->
                        IF declared
                        THEN << TSInterface("UserSchema", "types.ts", 1, tfs) >>
                        ELSE <<>>]
    /\ fn_result = <<>>
    /\ fn_pc = "TypeSafetyAuditor.run"

\* TypeSafetyAuditor(config).run() returns
TypeSafetyCall ==
    /\ fn_pc = "TypeSafetyAuditor.run"
    /\ fn_result' = TypeSafetyRun(fn_args.py_schemas, fn_args.ts_interfaces, <<>>)
    /\ fn_pc' = "returned"
    /\ UNCHANGED <<fn_args, todoVars, qualityVars, endpointVars, auditVars>>

NextTypes ==
    \/ TypeSafetyCall

SpecTypes == InitTypes /\ [][NextTypes]_vars

----------------------------------------------------------------------------
(* Claims about the type-safety auditor *)

\* the camelCase form of the backend field names of the model
CamelName(name) == IF name = <<"a", "_", "b">> THEN <<"a", "B">> ELSE name

\* the frontend type texts of the model that contain a candidate type of the
\* backend type
CompatibleTexts(py_type) ==
    CASE py_type = "int" -> {"number"}
      [] py_type = "str" -> {"string", "Array<string>"}

\* the field of the interface matched to the backend field name: the field of
\* that name, else the field of its camelCase name (<<>> when neither)
MatchedField(ts, name) ==
    LET exact == SelectSeq(ts.fields, LAMBDA f : f.name = name)
        camel == SelectSeq(ts.fields, LAMBDA f : f.name = CamelName(name))
    IN IF exact # <<>> THEN exact ELSE camel

\* the 'Type mismatch' findings for backend fields of the name and type
MismatchFindings(findings, name, py_type) ==
    SelectSeq(findings, LAMBDA f : /\ f.message[1] = "Type mismatch: "
                                   /\ f.message[3] = name
                                   /\ f.message[4] = py_type)

\* C18: for each backend field whose type has an entry in the
\* type-compatibility table and that is matched, by exact or camelCase name,
\* to a field of the same-named frontend interface, the auditor emits exactly
\* one 'Type mismatch' WARNING naming both type strings when the frontend
\* type text contains none of the candidate types, and none when it contains
\* one.
C18_TypeMismatchIffNoCandidate ==
    (fn_pc = "returned" /\ fn_args.ts_interfaces # <<>>) =>
        \A name \in {<<"a">>, <<"a", "_", "b">>} : \A py_type \in {"int", "str"} :
            LET py == fn_args.py_schemas[1]
                ts == fn_args.ts_interfaces[1]
                fields == {i \in 1..Len(py.fields) :
                              py.fields[i].name = name /\ py.fields[i].type_str = py_type}
                matched == MatchedField(ts, name)
                found == MismatchFindings(fn_result, name, py_type)
            IN matched # <<>> =>
                  IF matched[1].type_str \in CompatibleTexts(py_type)
                  THEN found = <<>>
                  ELSE /\ Len(found) = Cardinality(fields)
                       /\ \A k \in 1..Len(found) :
                             /\ found[k].severity = "warning"
                             /\ found[k].message[4] = py_type
                             /\ found[k].message[7] = matched[1].type_str

\* a run on age: int against age: string (one warning) and a_b: int against
\* aB: number (none)
C18_Witness ==
    /\ fn_pc = "returned"
    /\ fn_args.ts_interfaces # <<>>
    /\ fn_args.py_schemas[1].fields =
          << PydanticField(<<"a">>, "int", FALSE, <<>>),
             PydanticField(<<"a", "_", "b">>, "int", FALSE, <<>>) >>
    /\ fn_args.ts_interfaces[1].fields =
          << TSField(<<"a">>, "string", FALSE), TSField(<<"a", "B">>, "number", FALSE) >>
    /\ Len(MismatchFindings(fn_result, <<"a">>, "int")) = 1
    /\ MismatchFindings(fn_result, <<"a", "_", "b">>, "int") = <<>>

----------------------------------------------------------------------------
(* One identifier taken through snake_to_camel and back through
   camel_to_snake *)

MaxNameLen == 4

\* the characters of an identifier of lowercase letters, digits and underscores
IdentifierChars == {"a", "b", "1", "_"}

InitCase ==
    /\ TodoIdle
    /\ QualityIdle
    /\ EndpointIdle
    /\ AuditIdle
    /\ fn_args \in SeqsUpTo(IdentifierChars, MaxNameLen)
    /\ fn_result = <<>>
    /\ fn_pc = "snake_to_camel"

\* camel = snake_to_camel(x)
SnakeToCamel ==
    /\ fn_pc = "snake_to_camel"
    /\ fn_result' = [camel |-> snake_to_camel(fn_args)]
    /\ fn_pc' = "camel_to_snake"
    /\ UNCHANGED <<fn_args, todoVars, qualityVars, endpointVars, auditVars>>

\* snake = camel_to_snake(camel)
CamelToSnake ==
    /\ fn_pc = "camel_to_snake"
    /\ fn_result' = [camel |-> fn_result.camel, snake |-> camel_to_snake(fn_result.camel)]
    /\ fn_pc' = "returned"
    /\ UNCHANGED <<fn_args, todoVars, qualityVars, endpointVars, auditVars>>

NextCase ==
    \/ SnakeToCamel
    \/ CamelToSnake

SpecCase == InitCase /\ [][NextCase]_vars

----------------------------------------------------------------------------
(* Claims about the snake/camel conversions *)

\* C19: camel_to_snake(snake_to_camel(x)) = x for every identifier x made
\* only of lowercase letters, digits and underscores.
C19_RoundTrip ==
    fn_pc = "returned" => fn_result.snake = fn_args

\* C19 (amended): camel_to_snake(snake_to_camel(x)) = x for every identifier
\* x made only of lowercase letters, digits and underscores that does not
\* begin with an underscore.
C19_RoundTripNoLeadingUnderscore ==
    (fn_pc = "returned" /\ (fn_args = <<>> \/ Head(fn_args) # "_")) =>
        fn_result.snake = fn_args

\* a_b1 went to aB1 and came back as a_b1
C19_Witness ==
    /\ fn_pc = "returned"
    /\ fn_args = <<"a", "_", "b", "1">>
    /\ fn_result.camel = <<"a", "B", "1">>
    /\ fn_result.snake = fn_args

----------------------------------------------------------------------------
(* One call of a parser entry point on one file *)

\* the parser entry points the auditors call
ParserEntryPoints ==
    {"parse_pyproject_toml", "parse_package_json", "parse_routes_file",
     "parse_pydantic_file", "parse_typescript_file", "parse_zod_file",
     "parse_pytest_file", "parse_vitest_file"}

\* what a file holds: declarations of the parser's format, text that is not
\* of the format ("not valid json {{{"), a JSON array, or bytes that are not
\* UTF-8
FileContents == {"declarations", "not the format", "json array", "invalid utf-8"}

\* path.read_text(encoding="utf-8", errors="replace"): raises when the file
\* cannot be opened; undecodable bytes become replacement characters
read_text(file) ==
    IF ~file.readable THEN [raises |-> "PermissionError", text |-> ""]
    ELSE [raises |-> "none",
          text |-> IF file.contents = "invalid utf-8"
                   THEN "replacement characters" ELSE file.contents]

\* json.loads(text)
json_loads(text) ==
    CASE text = "declarations" -> [raises |-> "none", data |-> "object"]
      [] text = "json array" -> [raises |-> "none", data |-> "array"]
      [] OTHER -> [raises |-> "JSONDecodeError", data |-> "none"]

\* parse_package_json(path): only JSONDecodeError is caught, and data.get is
\* called on whatever json.loads returned
parse_package_json(file) ==
    LET read == read_text(file)
        loaded == json_loads(read.text)
    IN IF read.raises # "none" THEN [raises |-> read.raises, result |-> "none"]
       ELSE IF loaded.raises = "JSONDecodeError" THEN [raises |-> "none", result |-> "empty"]
       ELSE IF loaded.data # "object" THEN [raises |-> "AttributeError", result |-> "none"]
       ELSE [raises |-> "none", result |-> "declarations"]

\* the parsers that search the text with regular expressions: the result holds
\* what the patterns matched
parse_by_patterns(file) ==
    LET read == read_text(file)
    IN IF read.raises # "none" THEN [raises |-> read.raises, result |-> "none"]
       ELSE IF read.text = "declarations" THEN [raises |-> "none", result |-> "declarations"]
       ELSE [raises |-> "none", result |-> "empty"]

InitParsers ==
    /\ TodoIdle
    /\ QualityIdle
    /\ EndpointIdle
    /\ AuditIdle
    /\ \E parser \in ParserEntryPoints, contents \in FileContents, readable \in BOOLEAN :
          fn_args = [parser |-> parser,
                     file |-> [contents |-> contents, readable |-> readable]]
    /\ fn_result = <<>>
    /\ fn_pc = "parse"

\* the auditor calls the parser on the file
ParseFile ==
    /\ fn_pc = "parse"
    /\ LET out == IF fn_args.parser = "parse_package_json"
                  THEN parse_package_json(fn_args.file)
                  ELSE parse_by_patterns(fn_args.file)
       IN /\ fn_result' = out
          /\ fn_pc' = IF out.raises = "none" THEN "returned" ELSE "raised"
    /\ UNCHANGED <<fn_args, todoVars, qualityVars, endpointVars, auditVars>>

NextParsers ==
    \/ ParseFile

SpecParsers == InitParsers /\ [][NextParsers]_vars

----------------------------------------------------------------------------
(* Claims about the parsers *)

\* the file is malformed, unreadable or not decodable
BadFile(file) == ~file.readable \/ file.contents # "declarations"

\* C20: for every parser entry point, a file that is malformed, unreadable or
\* not decodable yields an empty result for that file, and no exception
\* reaches the auditor that called the parser.
C20_ParsersNeverRaise ==
    (fn_pc \in {"returned", "raised"} /\ BadFile(fn_args.file)) =>
        /\ fn_pc = "returned"
        /\ fn_result.result = "empty"

----------------------------------------------------------------------------
(* One run of the code-quality auditor, _scan_file taken line by line: fn_args
   is the file _scan_file is in and its text as read, fn_result the lines list,
   file_modified and the index the loop reaches next *)

\* _scan_file(path) up to the loop: the text is read (or the OSError of the
\* read makes it return)
OpenFile ==
    /\ qpc = "scan"
    /\ queue # <<>>
    /\ fn_pc = "idle"
    /\ queue' = Tail(queue)
    /\ \E read_ok \in BOOLEAN :
          IF ~read_ok
          THEN UNCHANGED <<scanned, callVars>>
          ELSE /\ scanned' = scanned \cup {Head(queue)}
               /\ fn_args' = [path |-> Head(queue), text |-> DecodeReplace(fs[Head(queue)])]
               /\ fn_result' = [lines |-> DecodeReplace(fs[Head(queue)]),
                                modified |-> FALSE, i |-> 1]
               /\ fn_pc' = "loop"
    /\ UNCHANGED <<fs, fs0, fix, qpc, fix_count, qfindings, written>>

\* one turn of _scan_file's loop over the lines
ExamineLine ==
    /\ fn_pc = "loop"
    /\ fn_result.i <= Len(fn_result.lines)
    /\ LET st == ScanLine([lines |-> fn_result.lines, findings |-> <<>>, fixes |-> 0,
                           modified |-> fn_result.modified],
                          fn_args.path, fn_result.i, fix)
       IN /\ fn_result' = [lines |-> st.lines, modified |-> st.modified,
                           i |-> fn_result.i + 1]
          /\ qfindings' = qfindings \o st.findings
          /\ fix_count' = fix_count + st.fixes
    /\ UNCHANGED <<fs, fs0, fix, qpc, queue, scanned, written, fn_args, fn_pc>>

\* a write of the lines list wherever the loop stands
WriteBackAnywhere ==
    /\ fn_pc = "loop"
    /\ fn_pc' = IF fn_result.i > Len(fn_result.lines) THEN "stubs" ELSE "loop"
    /\ IF fix /\ fn_result.modified
       THEN \E write_ok \in BOOLEAN :
               IF write_ok
               THEN /\ fs' = [fs EXCEPT ![fn_args.path] = fn_result.lines]
                    /\ written' = Append(written, fn_args.path)
               ELSE UNCHANGED <<fs, written>>
       ELSE UNCHANGED <<fs, written>>
    /\ UNCHANGED <<fs0, fix, qpc, queue, scanned, fix_count, qfindings, fn_args, fn_result>>

\* _scan_file after the loop: if self.config.fix and file_modified, the one
\* write_text of the lines, its OSError suppressed
WriteBack ==
    /\ fn_pc = "loop"
    /\ fn_result.i > Len(fn_result.lines)
    /\ fn_pc' = "stubs"
    /\ IF fix /\ fn_result.modified
       THEN \E write_ok \in BOOLEAN :
               IF write_ok
               THEN /\ fs' = [fs EXCEPT ![fn_args.path] = fn_result.lines]
                    /\ written' = Append(written, fn_args.path)
               ELSE UNCHANGED <<fs, written>>
       ELSE UNCHANGED <<fs, written>>
    /\ UNCHANGED <<fs0, fix, qpc, queue, scanned, fix_count, qfindings, fn_args, fn_result>>

\* _scan_file's last part: the stub findings of the text as read
ScanStubs ==
    /\ fn_pc = "stubs"
    /\ qfindings' = qfindings \o
          (IF Suffix(fn_args.path) \in PY_EXTS /\ ~StemNamesTest(fn_args.path)
           THEN StubFindings(fn_args.text, fn_args.path, 1) ELSE <<>>)
    /\ fn_args' = <<>>
    /\ fn_result' = <<>>
    /\ fn_pc' = "idle"
    /\ UNCHANGED <<fs, fs0, fix, qpc, queue, scanned, fix_count, written>>

NextScan ==
    \/ CollectFiles /\ UNCHANGED <<todoVars, callVars, endpointVars, auditVars>>
    \/ OpenFile /\ UNCHANGED <<todoVars, endpointVars, auditVars>>
    \/ ExamineLine /\ UNCHANGED <<todoVars, endpointVars, auditVars>>
    \/ WriteBack /\ UNCHANGED <<todoVars, endpointVars, auditVars>>
    \/ ScanStubs /\ UNCHANGED <<todoVars, endpointVars, auditVars>>
    \/ fn_pc = "idle" /\ QualityReturn
          /\ UNCHANGED <<todoVars, callVars, endpointVars, auditVars>>

SpecScan == InitQuality /\ [][NextScan]_vars

----------------------------------------------------------------------------
(* Claims about the auto-fix pass *)

\* the text with every line that matches the debug pattern of the file's
\* language family made empty (no line of a test file counts)
DebugBlanked(path, text) ==
    [k \in 1..Len(text) |->
        IF ~StemNamesTest(path) /\ IsDebugLine(path, text[k]) THEN "" ELSE text[k]]

\* C21: during one pass of the code-quality auditor in auto-fix mode each
\* source file is written at most once (no write of a file is followed by a
\* later write of it), and a write happens only after every line of the file
\* has been examined and carries all the line edits of the file together.
C21_OneWriteAfterAllLines ==
    /\ [](fix => \A j, k \in 1..Len(written) : written[j] = written[k] => j = k)
    /\ [][(fix /\ (fs' # fs \/ written' # written)) =>
             /\ fn_pc = "loop"
             /\ fn_result.i > Len(fn_result.lines)
             /\ written' = Append(written, fn_args.path)
             /\ fs' = [fs EXCEPT ![fn_args.path] = DebugBlanked(fn_args.path, fs0[fn_args.path])]
          ]_vars

\* a finished auto-fix pass that wrote views.py once, with both of its debug
\* lines made empty in that write
C21_Witness ==
    /\ qpc = "done"
    /\ fix
    /\ fs0["views.py"] = <<"print('x')", "print('x')">>
    /\ fs["views.py"] = <<"", "">>
    /\ Len(SelectSeq(written, LAMBDA p : p = "views.py")) = 1

----------------------------------------------------------------------------
(* Claims about the merge and the filter of run_audit *)

\* the finding lists of the auditors that returned, one after the other
RECURSIVE ConcatFindings(_)
ConcatFindings(rs) ==
    IF rs = <<>> THEN <<>> ELSE Head(rs).findings \o ConcatFindings(Tail(rs))

\* the selected built-in auditors in registration order, then the plugins
\* that load in the order of their files
ExpectedAuditors ==
    SelectSeq(<< <<"types">>, <<"quality">>, <<"endpoints">>, <<"tests">>,
                 <<"dependencies">>, <<"vulnerabilities">> >>,
              LAMBDA t : audit_types = <<>>
                            \/ \E i \in 1..Len(audit_types) : audit_types[i] = t[1])
    \o [k \in 1..Len(SelectSeq(project.plugins, LAMBDA pl : pl.loads = "class")) |->
           <<"plugin:", SelectSeq(project.plugins, LAMBDA pl : pl.loads = "class")[k].name>>]

\* the list is the other list with findings added at its end
Extends(longer, shorter) ==
    /\ Len(longer) >= Len(shorter)
    /\ SubSeq(longer, 1, Len(shorter)) = shorter

----------------------------------------------------------------------------
(* parse_routes_file and _check_auth on the text of one route file.  The text
   is a sequence of lines: a line holds a decorator of the first pattern
   (@router.post("/users", auth=JWT)), a decorator of the second pattern
   (@http_post("/users", auth=JWT)), a def line with a body that is no stub, or
   the assignment auth = login() *)

MaxTokens == 3

\* one line of a route file; auth is the word after "auth=" on the line, ""
\* when the line holds no "auth="
RouteLine(k, m, p, a, n) == [kind |-> k, method |-> m, path |-> p, auth |-> a, name |-> n]

RouteLinePool ==
    { RouteLine("route", m, p, a, "") :
         m \in {"get", "post"}, p \in {"/users", "/"}, a \in {"", "JWT", "None"} }
    \cup { RouteLine("http", "post", "/users", a, "") : a \in {"", "JWT"} }
    \cup { RouteLine("def", "", "", "", "create_user"),
           RouteLine("assign", "", "", "login", "") }

\* match.group(1).upper()
MethodUpper(m) ==
    CASE m = "get" -> "GET"
      [] m = "post" -> "POST"

\* match.group(3).lower()
WordLower(w) ==
    CASE w = "None" -> "none"
      [] w = "JWT" -> "jwt"
      [] w = "login" -> "login"

\* FUNC_DEF_RE.search(text[match.end():]): the name of the first def after
\* line j, "unknown" when there is none
NextDef(text, j) ==
    LET defs == {k \in (j + 1)..Len(text) : text[k].kind = "def"}
    IN IF defs = {} THEN "unknown"
       ELSE text[CHOOSE k \in defs : \A l \in defs : k <= l].name

\* the loop of parse_routes_file over ROUTE_RE.finditer(text): the optional
\* group (?:.*?auth\s*=\s*(\w+))? is tried first and, under re.DOTALL, runs to
\* the first "auth=" at or after the decorator, on whatever line; the match
\* ends at the next ")" and the search goes on after it
RouteMatches(text, file) ==
    LET RECURSIVE Scan(_)
        Scan(i) ==
            IF i > Len(text) THEN <<>>
            ELSE IF text[i].kind # "route" THEN Scan(i + 1)
            ELSE LET later == {k \in i..Len(text) : text[k].auth # ""}
                     j == IF later = {} THEN i
                          ELSE CHOOSE k \in later : \A l \in later : k <= l
                     group3 == IF later = {} THEN "" ELSE text[j].auth
                     has_auth == group3 # "" /\ WordLower(group3) \notin {"none", "false"}
                 IN << Route(MethodUpper(text[i].method), text[i].path, NextDef(text, j),
                             file, i, has_auth, FALSE) >> \o Scan(j + 1)
    IN Scan(1)

\* the loop over HTTP_DECORATOR_RE.finditer(text): the match ends at the
\* quote that closes the path, so "auth=" is never in match.group(0)
HttpMatches(text, file) ==
    LET RECURSIVE Scan(_)
        Scan(i) ==
            IF i > Len(text) THEN <<>>
            ELSE IF text[i].kind # "http" THEN Scan(i + 1)
            ELSE << Route(MethodUpper(text[i].method), text[i].path, NextDef(text, i),
                          file, i, FALSE, FALSE) >> \o Scan(i + 1)
    IN Scan(1)

\* parse_routes_file(path), the text read
parse_routes_file(text, file) == RouteMatches(text, file) \o HttpMatches(text, file)

InitRoutes ==
    /\ TodoIdle
    /\ QualityIdle
    /\ EndpointIdle
    /\ AuditIdle
    /\ fn_args \in SeqsUpTo(RouteLinePool, MaxTokens)
    /\ fn_result = <<>>
    /\ fn_pc = "parse_routes_file"

\* routes.extend(parse_routes_file(f)) for the file api.py
ParseRoutesFile ==
    /\ fn_pc = "parse_routes_file"
    /\ fn_result' = [routes |-> parse_routes_file(fn_args, "api.py"), findings |-> <<>>]
    /\ fn_pc' = "_check_auth"
    /\ UNCHANGED <<fn_args, todoVars, qualityVars, endpointVars, auditVars>>

\* self._check_auth(routes)
CheckAuth ==
    /\ fn_pc = "_check_auth"
    /\ fn_result' = [fn_result EXCEPT !.findings = _check_auth(fn_result.routes)]
    /\ fn_pc' = "returned"
    /\ UNCHANGED <<fn_args, todoVars, qualityVars, endpointVars, auditVars>>

NextRoutes ==
    \/ ParseRoutesFile
    \/ CheckAuth

SpecRoutes == InitRoutes /\ [][NextRoutes]_vars

----------------------------------------------------------------------------
(* Claims about the route parser and the auth check *)

\* the lines of the text that hold a route decorator
DecoratorLines(text) == {i \in 1..Len(text) : text[i].kind \in {"route", "http"}}

\* the 'No auth on write endpoint' findings for the decorator on line i
NoAuthFindings(findings, i) ==
    SelectSeq(findings, LAMBDA f : /\ f.message[1] = "No auth on write endpoint: "
                                   /\ f.line = i)

\* C23: for every route-file text the endpoint auditor emits a 'No auth on
\* write endpoint' WARNING for each route decorator whose method is POST,
\* PUT, DELETE or PATCH and whose own decorator call carries no auth
\* argument, and none for a write route whose own decorator carries an auth
\* reference other than none/false.
C23_NoAuthWarningPerOwnDecorator ==
    fn_pc = "returned" =>
        \A i \in DecoratorLines(fn_args) :
            LET found == NoAuthFindings(fn_result.findings, i)
            IN fn_args[i].method = "post" =>
                  /\ fn_args[i].auth = "" =>
                        /\ Len(found) = 1
                        /\ found[1].severity = "warning"
                        /\ found[1].message[3] = fn_args[i].path
                  /\ fn_args[i].auth = "JWT" => found = <<>>

\* C24: parse_routes_file returns exactly one Route record for each route
\* decorator occurring in the file, whatever precedes or follows it: two
\* decorators with the same method and path yield two records, and no
\* decorator is left without a record.
C24_OneRecordPerDecorator ==
    fn_pc \in {"_check_auth", "returned"} =>
        /\ Len(fn_result.routes) = Cardinality(DecoratorLines(fn_args))
        /\ \A i \in DecoratorLines(fn_args) :
              LET recs == SelectSeq(fn_result.routes, LAMBDA r : r.line = i)
              IN /\ Len(recs) = 1
                 /\ recs[1].method = MethodUpper(fn_args[i].method)
                 /\ recs[1].path = fn_args[i].path

----------------------------------------------------------------------------
(* parse_pyproject_toml on the text of one pyproject.toml, a sequence of
   lines *)

MaxManifestLines == 4

\* the lines a pyproject.toml of the model is made of
ManifestLines ==
    {"[project]", "[project.optional-dependencies]", "[tool.uv]",
     "[tool.uv.dev-dependencies]", "dependencies = [", "dev-dependencies = [",
     "dev = [", "\"django>=5.0\",", "]", ""}

\* _SECTION_RE matches the line
IsSectionHeader(line) ==
    line \in {"[project]", "[project.optional-dependencies]", "[tool.uv]",
              "[tool.uv.dev-dependencies]"}

\* key_re matches the line: _DEPS_KEY_RE, _DEV_DEPS_KEY_RE, or the pattern
\* ^(\w+)\s*=\s*\[ of the optional-dependencies section
KeyMatches(key_re, line) ==
    CASE key_re = "_DEPS_KEY_RE" -> line = "dependencies = ["
      [] key_re = "_DEV_DEPS_KEY_RE" -> line = "dev-dependencies = ["
      [] key_re = "any key" -> line \in {"dependencies = [", "dev = ["}

\* the smallest member of a set of line numbers, 0 when it is empty
FirstOf(ks) == IF ks = {} THEN 0 ELSE CHOOSE k \in ks : \A l \in ks : k <= l

\* _get_section_text: the section of the header on line h runs to the line
\* before the next header, else to the end of the text; its last line
_get_section_text(text, h) ==
    LET nxt == FirstOf({k \in (h + 1)..Len(text) : IsSectionHeader(text[k])})
    IN IF nxt = 0 THEN Len(text) ELSE nxt - 1

\* _extract_list_block for the list opened on line k of a section that ends
\* on line last: the line of the "]" that brings the depth back to 0,
\* last + 1 when there is none
_extract_list_block(text, k, last) ==
    LET RECURSIVE Close(_, _)
        Close(i, depth) ==
            IF i > last THEN last + 1
            ELSE IF text[i] \in {"dependencies = [", "dev-dependencies = [", "dev = ["}
                 THEN Close(i + 1, depth + 1)
            ELSE IF text[i] = "]"
                 THEN IF depth = 1 THEN i ELSE Close(i + 1, depth - 1)
            ELSE Close(i + 1, depth)
    IN Close(k + 1, 1)

\* _parse_dep_line: <<>> for None
_parse_dep_line(line, line_num, dev) ==
    IF line = "\"django>=5.0\","
    THEN << Dependency("django", ">=5.0", line_num, dev) >>
    ELSE <<>>

\* the loop over enumerate(list_content.split("\n")) for the list opened on
\* line k: base_line is the line of the bracket, element i of the split is
\* the text of line k + i, and the record is given base_line + i + 1
ListDeps(text, k, last, dev) ==
    LET close == _extract_list_block(text, k, last)
        base_line == k
        RECURSIVE Loop(_)
        Loop(i) ==
            IF k + i >= close THEN <<>>
            ELSE (IF text[k + i] = "" THEN <<>>
                  ELSE _parse_dep_line(text[k + i], base_line + i + 1, dev))
                 \o Loop(i + 1)
    IN Loop(1)

\* _parse_deps_from_section for the section whose header is the first line
\* equal to header
_parse_deps_from_section(text, header, key_re, dev) ==
    LET h == FirstOf({k \in 1..Len(text) : text[k] = header})
        last == _get_section_text(text, h)
        key == FirstOf({k \in (h + 1)..last : KeyMatches(key_re, text[k])})
    IN IF h = 0 \/ key = 0 THEN <<>> ELSE ListDeps(text, key, last, dev)

\* parse_pyproject_toml: the [project.optional-dependencies] part, one list
\* for each key of the section
OptionalDeps(text) ==
    LET h == FirstOf({k \in 1..Len(text) : text[k] = "[project.optional-dependencies]"})
        last == _get_section_text(text, h)
        RECURSIVE Keys(_)
        Keys(k) ==
            IF k > last THEN <<>>
            ELSE (IF KeyMatches("any key", text[k])
                  THEN ListDeps(text, k, last, TRUE) ELSE <<>>) \o Keys(k + 1)
    IN IF h = 0 THEN <<>> ELSE Keys(h + 1)

\* parse_pyproject_toml(path), the text read
parse_pyproject_toml(text) ==
    DependencyManifest("pyproject.toml", "pyproject.toml",
        _parse_deps_from_section(text, "[project]", "_DEPS_KEY_RE", FALSE)
        \o OptionalDeps(text)
        \o _parse_deps_from_section(text, "[tool.uv.dev-dependencies]", "_DEPS_KEY_RE", TRUE)
        \o _parse_deps_from_section(text, "[tool.uv]", "_DEV_DEPS_KEY_RE", TRUE))

InitPyproject ==
    /\ TodoIdle
    /\ QualityIdle
    /\ EndpointIdle
    /\ AuditIdle
    /\ fn_args \in SeqsUpTo(ManifestLines, MaxManifestLines)
    /\ fn_result = <<>>
    /\ fn_pc = "parse_pyproject_toml"

\* manifest = parse_pyproject_toml(f)
ParsePyproject ==
    /\ fn_pc = "parse_pyproject_toml"
    /\ fn_result' = parse_pyproject_toml(fn_args)
    /\ fn_pc' = "returned"
    /\ UNCHANGED <<fn_args, todoVars, qualityVars, endpointVars, auditVars>>

NextPyproject ==
    \/ ParsePyproject

SpecPyproject == InitPyproject /\ [][NextPyproject]_vars

----------------------------------------------------------------------------
(* Claims about parse_pyproject_toml *)

\* C25: every Dependency record produced by parse_pyproject_toml has a line
\* field equal to the 1-based number of the source line on which that
\* dependency entry is written, for every section that declares dependencies.
C25_LineIsLineOfEntry ==
    fn_pc = "returned" =>
        \A k \in 1..Len(fn_result.dependencies) :
            LET d == fn_result.dependencies[k]
            IN /\ d.line \in 1..Len(fn_args)
               /\ fn_args[d.line] = "\"django>=5.0\","

----------------------------------------------------------------------------
(* The interface parser's extraction of one interface body: the text from the
   interface's opening brace on, a sequence of characters *)

MaxChars == 5

\* the characters after the opening brace: braces, a double quote, a letter
BodyChars == {"{", "}", "\"", "a"}

\* typescript_types._extract_block(text, open_pos): the body as a sequence of
\* characters
_extract_block(text, open_pos) ==
    LET RECURSIVE Loop(_, _)
        Loop(i, depth) ==
            IF i > Len(text) THEN SubSeq(text, open_pos + 1, Len(text))
            ELSE IF text[i] = "{" THEN Loop(i + 1, depth + 1)
            ELSE IF text[i] = "}"
                 THEN IF depth - 1 = 0 THEN SubSeq(text, open_pos + 1, i - 1)
                      ELSE Loop(i + 1, depth - 1)
            ELSE Loop(i + 1, depth)
    IN Loop(open_pos, 0)

InitBlock ==
    /\ TodoIdle
    /\ QualityIdle
    /\ EndpointIdle
    /\ AuditIdle
    /\ \E rest \in SeqsUpTo(BodyChars, MaxChars) : fn_args = <<"{">> \o rest
    /\ fn_result = <<>>
    /\ fn_pc = "_extract_block"

\* parse_typescript_file: body = _extract_block(text, brace_start)
ExtractBody ==
    /\ fn_pc = "_extract_block"
    /\ fn_result' = [body |-> _extract_block(fn_args, 1)]
    /\ fn_pc' = "returned"
    /\ UNCHANGED <<fn_args, todoVars, qualityVars, endpointVars, auditVars>>

NextBlock ==
    \/ ExtractBody

SpecBlock == InitBlock /\ [][NextBlock]_vars

----------------------------------------------------------------------------
(* Claims about the interface parser *)

\* the position of the brace that matches the brace at position 1 when the
\* braces inside string literals are not counted; 0 when there is none
MatchingBrace(text) ==
    LET RECURSIVE Walk(_, _, _)
        Walk(i, depth, quoted) ==
            IF i > Len(text) THEN 0
            ELSE IF text[i] = "\"" THEN Walk(i + 1, depth, ~quoted)
            ELSE IF quoted THEN Walk(i + 1, depth, quoted)
            ELSE IF text[i] = "{" THEN Walk(i + 1, depth + 1, quoted)
            ELSE IF text[i] = "}"
                 THEN IF depth = 1 THEN i ELSE Walk(i + 1, depth - 1, quoted)
            ELSE Walk(i + 1, depth, quoted)
    IN Walk(1, 0, FALSE)

\* C26: when the interface parser extracts an interface body, a brace inside
\* a quoted string literal does not change the brace depth: the extracted
\* body ends at the brace that matches the interface's opening brace, also
\* when a field's text holds "}" inside a string.
C26_BodyEndsAtMatchingBrace ==
    (fn_pc = "returned" /\ MatchingBrace(fn_args) # 0) =>
        fn_result.body = SubSeq(fn_args, 2, MatchingBrace(fn_args) - 1)

----------------------------------------------------------------------------
(* Claims about the findings of plugins *)

\* C27: every finding produced by a plugin auditor appears in the report and
\* in its JSON serialization under the category 'plugin:<ClassName>' of the
\* plugin class that produced it, distinct from the six built-in audit
\* categories.
C27_PluginFindingsUnderPluginCategory ==
    \A k \in 1..Len(results) :
        results[k].auditor[1] = "plugin:" =>
            \A j \in 1..Len(results[k].findings) :
                LET f == results[k].findings[j]
                IN /\ f.category \notin BuiltinAuditors
                   /\ \A n \in 1..Len(printed) : \A i \in 1..Len(printed[n].findings) :
                         printed[n].findings[i].message = f.message =>
                            printed[n].findings[i].category \notin BuiltinAuditors

----------------------------------------------------------------------------
(* Claims about a later run with nothing actionable *)

\* C28: if the task file holds an audit section written by an earlier run
\* and a later run's report has no ERROR or WARNING finding, write_todo
\* returns None and leaves the task file unchanged, so the earlier run's
\* section stays in the file.
C28_EarlierSectionKept ==
    [][(ncalls' # ncalls /\ ret = "todo_path"
          /\ \A i \in 1..Len(report') : report'[i].severity = "info") =>
          /\ ret' = "None"
          /\ todoExists' = todoExists
          /\ todo' = todo
          /\ \E i \in 1..Len(todo') : OccursAt(todo', section, i)
      ]_vars

\* a second call, of a report with one INFO finding only, returned None and
\* the file still holds the entry the first call wrote
C28_Witness ==
    /\ ncalls = 2
    /\ ret = "None"
    /\ Len(report) = 1
    /\ report[1].severity = "info"
    /\ todoExists
    /\ \E k \in 1..Len(todo) : IsEntry(todo[k])

----------------------------------------------------------------------------
(* One run of the code-quality auditor over two files whose bytes may hold a
   line that is not UTF-8 and a line that ends in "\r\n" *)

RewriteLines == QualityLines \cup {"# caf\\xe9", "y = 2\\r"}

InitRewrite ==
    /\ TodoIdle
    /\ EndpointIdle
    /\ AuditIdle
    /\ CallIdle
    /\ fs \in [{"views.py", "app.tsx"} -> SeqsUpTo(RewriteLines, MaxLines)]
    /\ fs0 = fs
    /\ fix \in BOOLEAN
    /\ qpc = "new"
    /\ queue = <<>>
    /\ scanned = {}
    /\ fix_count = 0
    /\ qfindings = <<>>
    /\ written = <<>>

SpecRewrite == InitRewrite /\ [][NextQuality]_vars

----------------------------------------------------------------------------
(* Claims about what an auto-fix pass leaves of a file *)

\* C29: an auto-fix pass changes a rewritten file only on the lines that
\* matched the debug-statement pattern: the file keeps the same number of
\* lines, each matched line becomes an empty line, and every other line is
\* identical to the original.
C29_OnlyDebugLinesChanged ==
    fix =>
        \A n \in 1..Len(written) :
            LET p == written[n]
            IN /\ Len(fs[p]) = Len(fs0[p])
               /\ \A k \in 1..Len(fs0[p]) :
                     fs[p][k] = IF IsDebugLine(p, fs0[p][k]) THEN "" ELSE fs0[p][k]

-----------------------------------------------------------------------------
(* One run of the fullstack generator over a target directory *)

\* the files a directory at the target path may already hold
UserFiles == {"notes.txt", "src"}

\* the step list of the fullstack generator, the iOS clone inserted at
\* index 3 (0-based) when configured
steps(include_ios) ==
    LET base == << "_step_create_dir", "_step_clone_backend", "_step_clone_frontend",
                   "_step_create_root_files", "_write_pre_commit_config",
                   "_step_customize_backend", "_step_customize_frontend",
                   "_step_init_git", "_step_finish" >>
    IN IF include_ios
       THEN SubSeq(base, 1, 3) \o << "_step_clone_ios" >> \o SubSeq(base, 4, Len(base))
       ELSE base

\* mkdir(parents=True, exist_ok=False) of the target path; a dry run
\* touches nothing and succeeds
create_root_directory(dir, dry_run) ==
    IF dry_run THEN [ok |-> TRUE, dir |-> dir]
    ELSE IF dir.exists THEN [ok |-> FALSE, dir |-> dir]
    ELSE [ok |-> TRUE, dir |-> [exists |-> TRUE, files |-> {}]]

\* rmtree of the target path when it exists, errors ignored
cleanup(dir, rm_ok) ==
    IF dir.exists /\ rm_ok THEN [exists |-> FALSE, files |-> {}] ELSE dir

\* what a step after the first leaves in the target directory when it
\* succeeds outside a dry run
StepFiles(step) ==
    CASE step = "_step_clone_backend" -> {"backend"}
      [] step = "_step_clone_frontend" -> {"frontend"}
      [] step = "_step_clone_ios" -> {"ios"}
      [] step = "_step_create_root_files" -> {"README.md"}
      [] step = "_write_pre_commit_config" -> {".pre-commit-config.yaml"}
      [] step = "_step_init_git" -> {".git"}
      [] OTHER -> {}

\* the results a step after the first can return: a dry run clones and
\* writes nothing and so cannot fail there; the last step always succeeds
StepOutcomes(step, dry_run) ==
    IF step = "_step_finish" THEN {TRUE}
    ELSE IF dry_run /\ step \notin {"_step_customize_backend", "_step_customize_frontend"}
    THEN {TRUE}
    ELSE BOOLEAN

InitGenerator ==
    /\ TodoIdle
    /\ QualityIdle
    /\ EndpointIdle
    /\ AuditIdle
    /\ \E existed \in BOOLEAN, files \in SUBSET UserFiles,
          dry_run \in BOOLEAN, include_ios \in BOOLEAN :
          /\ ~existed => files = {}
          /\ fn_args = [dir |-> [exists |-> existed, files |-> files],
                        dry_run |-> dry_run, include_ios |-> include_ios]
          /\ fn_result = [dir |-> [exists |-> existed, files |-> files],
                          step |-> 1, ret |-> "running"]
    /\ fn_pc = "run"

\* one turn of the loop of run: the step is called; a False result cleans up
\* and returns False
GeneratorStep ==
    /\ fn_pc = "run"
    /\ fn_result.step <= Len(steps(fn_args.include_ios))
    /\ LET step == steps(fn_args.include_ios)[fn_result.step]
       IN \E result \in StepOutcomes(step, fn_args.dry_run), rm_ok \in BOOLEAN :
             LET r == IF step = "_step_create_dir"
                      THEN create_root_directory(fn_result.dir, fn_args.dry_run)
                      ELSE [ok |-> result,
                            dir |-> IF result /\ ~fn_args.dry_run /\ fn_result.dir.exists
                                    THEN [fn_result.dir EXCEPT
                                            !.files = @ \cup StepFiles(step)]
                                    ELSE fn_result.dir]
             IN IF r.ok
                THEN /\ fn_result' = [fn_result EXCEPT !.dir = r.dir, !.step = @ + 1]
                     /\ fn_pc' = "run"
                ELSE /\ fn_result' = [fn_result EXCEPT !.dir = cleanup(r.dir, rm_ok),
                                                       !.ret = "False"]
                     /\ fn_pc' = "returned"
    /\ UNCHANGED <<fn_args, todoVars, qualityVars, endpointVars, auditVars>>

\* every step succeeded
GeneratorReturn ==
    /\ fn_pc = "run"
    /\ fn_result.step > Len(steps(fn_args.include_ios))
    /\ fn_result' = [fn_result EXCEPT !.ret = "True"]
    /\ fn_pc' = "returned"
    /\ UNCHANGED <<fn_args, todoVars, qualityVars, endpointVars, auditVars>>

NextGenerator ==
    \/ GeneratorStep
    \/ GeneratorReturn

SpecGenerator == InitGenerator /\ [][NextGenerator]_vars

-----------------------------------------------------------------------------
(* Claims about the generator run *)

\* C30: a run that finds the target directory already there (outside a dry
\* run) fails at its first step, returns False, and leaves that directory and
\* the files it held as they were.
C30_ExistingDirectoryLeftInPlace ==
    (fn_pc = "returned" /\ fn_args.dir.exists /\ ~fn_args.dry_run)
        => /\ fn_result.ret = "False"
           /\ fn_result.step = 1
           /\ fn_result.dir = fn_args.dir

=============================================================================
